---------------------------- MODULE Spec2Model ----------------------------
(***************************************************************************)
(* A model of the FLIP fluid simulator's frame driver                      *)
(* (src/src/engine/fluidsimulation.cpp): FluidSimulation::update and the   *)
(* substep loop, the stage pipeline of _stepFluid with its worker threads, *)
(* the solid level set cache, the marker particle store and the grid /     *)
(* particle kernels that split an index range over threads.                *)
(*                                                                         *)
(* Time is counted in ticks of 1/60 ns, so that the two tolerances of      *)
(* update(), eps = 1e-9 s and epsdt = 1e-6 s, are the integers Eps and     *)
(* EpsDt and every quotient the loop forms is a whole number of ticks.     *)
(***************************************************************************)
EXTENDS Integers, Sequences, FiniteSets, TLC

\* ------------------------------------------------------------- constants
\* double eps = 1e-9 in update(): the loop and last-substep tolerance.
Eps == 60
\* double epsdt = 1e-6 in update(): the shortest frame that is simulated.
EpsDt == 60000
\* _getBoundaryAABB: the boundary lies 3 cells within the grid.
BoundaryWidth == 3

\* ---------------------------------------------------------------- bounds
\* Largest value handed to setMinTimeStepsPerFrame / setMaxTimeStepsPerFrame.
MaxSteps == 5
\* Number of frames (update calls that run) explored.
MaxFrames == 2

\* Largest iteration count a pressure solve reports.
MaxIterations == 2
\* Largest maximum number of time steps per frame of the solver runs.
SolverSteps == 3
\* Largest maximum number of time steps per frame of the viscosity runs.
ViscositySteps == 2

\* Largest maximum number of time steps per frame of the stage-level runs.
StageSteps == 2
\* Number of frames the stage-level runs follow.
StageFrames == 1

\* The particle store holds at most MaxParticles particles.
MaxParticles == 3
\* At most MaxLoads particle batches are queued before initialize().
MaxLoads == 2
\* Largest number of batches queued before initialize() in the store runs.
StoreLoads == 1
\* Cells of the grid along the axis the particle positions are taken on.
GridCells == 8
\* At most MaxSources fluid sources are added.
MaxSources == 2
\* The jitter factors set: within a sub-cell, and beyond it.
JitterFactors == {1, 2}
\* ThreadUtils::setMaxThreadCount is given at most MaxThreads.
MaxThreads == 2

\* The values handed to setMinTimeStepsPerFrame / setMaxTimeStepsPerFrame:
\* an invalid one, the smallest two and the largest.
StepSettings == {0, 1, 2, MaxSteps}
\* Frame lengths handed to update(dt), in ticks: a negative dt, dt = 0,
\* dt = epsdt, and 1.806e-6 s.
FrameDts == {-1, 0, 60000, 108360}
\* The substep counts estimatedNumFrameSubsteps that _calculateNextTimeStep
\* can arrive at: they depend on the particle and obstacle speeds.
StepCounts == {1, 2, 3, 7, 43}
\* The counts that split a frame of dt ticks into whole ticks.
StepCountsFor(dt) == {n \in StepCounts : dt % n = 0}

Min(a, b) == IF a <= b THEN a ELSE b
Max(a, b) == IF a >= b THEN a ELSE b
Abs(a) == IF a >= 0 THEN a ELSE -a

\* ------------------------------------------------------------- variables
VARIABLES
  \* --- FluidSimulation members read and written by update()
  isSimulationInitialized,
  minFrameTimeSteps,
  maxFrameTimeSteps,
  isAsynchronousMeshingEnabled,
  isSurfaceMeshReconstructionEnabled,
  isDebugOutputEnabled,            \* any of the three debug outputs
  outputDataIsInitialized,         \* _outputData.isInitialized
  currentFrame,
  currentFrameDeltaTime,
  currentFrameDeltaTimeRemaining,
  currentFrameTimeStep,
  currentFrameTimeStepNumber,
  isLastFrameTimeStep,
  isZeroLengthDeltaTime,
  isSkippedFrame,
  isCurrentFrameFinished,
  mesherThread,                    \* _mesherThread: none, running, finished
  pressureSolver,                  \* _pressureSolverSuccess/Iterations/Error
  frameData,                       \* _outputData.frameData
  \* --- the caller's view
  pc,                              \* where the thread calling update() is
  lastError,                       \* what the last API call threw
  \* --- history, kept to state the properties
  frameDtArg,                      \* the dt the running update() was given
  frameTimeSimulated,              \* sum of the substep lengths of the frame
  solveLog,                        \* pressure solves of the frame, in order
  viscositySolver,                 \* _viscositySolverSuccess/Iterations/Error
  viscosityLog,                    \* viscosity solves of the frame, in order
  \* --- _stepFluid, stage by stage, and its two workers
  isSurfaceTensionEnabled,
  isSheetSeedingEnabled,
  isDiffuseMaterialOutputEnabled,
  isInvertedContactNormalsEnabled,
  mainStage,                       \* stage of _stepFluid the main thread is in
  stageLog,                        \* computing stages done in the substep
  fluidCurvatureThread,            \* _fluidCurvatureThread: none, running, finished
  isCalculateFluidCurvatureGridThreadRunning,
  markerParticles,                 \* _markerParticles: substep of its last write
  solidSDF,                        \* _solidSDF: substep of its last write
  MACVelocity,                     \* _MACVelocity: substep of its last write
  attributeGrids,                  \* the _...AttributeGrid grids: their last write
  meshingVolumeSDF,                \* _meshingVolumeSDF: its last write
  mesherSnapshot,                  \* the copies handed to the output worker
  mesherPc,                        \* where the output worker is
  mesherReads,                     \* what the output worker has read
  \* --- the obstacles and the solid level set
  obstacles,                       \* _obstacles
  objectStatus,                    \* each obstacle's MeshObjectStatus
  isStaticSolidLevelSetPrecomputed,
  isPrecomputedSolidLevelSetUpToDate,
  isSolidLevelSetUpToDate,
  staticSolidSDF,                  \* _staticSolidSDF: built, and from what
  staticChangeReported,            \* a static obstacle reported a change
                                   \* that _staticSolidSDF does not hold
  lastStaticCombine,               \* the statics of the last _solidSDF
  \* --- the marker particle store
  attributeFlags,                  \* the _is...AttributeEnabled flags that are set
  velocityTransferMethod,          \* _velocityTransferMethod: FLIP or APIC
  markerParticleLoadQueue,         \* _markerParticleLoadQueue and its companions
  particleSystem,                  \* _markerParticles: size and column lengths
  lastStoreOp,                     \* the last function that changed the store
  loadedBatches,                   \* queue indices _loadMarkerParticles got
  \* --- kernel launches: threads over an index range, joined by the launcher
  maxThreadCount,                  \* ThreadUtils::getMaxThreadCount()
  kernelLaunch,                    \* the launch in progress, or none
  kernelIntervals,                 \* intervals handed to the threads
  kernelPos,                       \* each thread's loop index
  kernelNear,                      \* fine cells with |_solidSDF| < maxd
  kernelWrites,                    \* elements the threads of the launch wrote
  nearSolidGrid,                   \* _nearSolidGrid: the coarse cells set
  \* fluid sources and particle positions
  meshFluidSources,                \* _meshFluidSources, in vector order
  addedFluidMeshObjectQueue,       \* _addedFluidMeshObjectQueue
  positions,                       \* the POSITION values of _markerParticles
  openBoundaryXNeg,                \* _openBoundaryXNeg
  openBoundaryXPos,                \* _openBoundaryXPos
  openBoundaryWidth,               \* _openBoundaryWidth
  markerParticleJitterFactor,      \* _markerParticleJitterFactor
  isJitterSurfaceMarkerParticlesEnabled,
  sourceLog,                       \* what _updateFluidObjects processed last
  \* --- the C entry points
  err,                             \* the int the caller's err points to
  upscalingPrevious                \* _upscalingPrevious...: the previous grid

frameVars == <<isSimulationInitialized, minFrameTimeSteps, maxFrameTimeSteps,
               isAsynchronousMeshingEnabled, isSurfaceMeshReconstructionEnabled,
               isDebugOutputEnabled, outputDataIsInitialized, currentFrame,
               currentFrameDeltaTime, currentFrameDeltaTimeRemaining,
               currentFrameTimeStep, currentFrameTimeStepNumber,
               isLastFrameTimeStep, isZeroLengthDeltaTime, isSkippedFrame,
               isCurrentFrameFinished, mesherThread, pressureSolver,
               frameData, pc, lastError, frameDtArg, frameTimeSimulated,
               solveLog, viscositySolver, viscosityLog>>

configVars == <<minFrameTimeSteps, maxFrameTimeSteps,
                isAsynchronousMeshingEnabled,
                isSurfaceMeshReconstructionEnabled, isDebugOutputEnabled>>

timeVars == <<currentFrameDeltaTime, currentFrameDeltaTimeRemaining,
              currentFrameTimeStep, currentFrameTimeStepNumber,
              isLastFrameTimeStep, isZeroLengthDeltaTime, isSkippedFrame>>

historyVars == <<frameDtArg, frameTimeSimulated, solveLog, viscosityLog>>

solverVars == <<pressureSolver, viscositySolver>>

stageFlags == <<isSurfaceTensionEnabled, isSheetSeedingEnabled,
                isDiffuseMaterialOutputEnabled,
                isInvertedContactNormalsEnabled>>

liveVars == <<markerParticles, solidSDF, MACVelocity, attributeGrids,
              meshingVolumeSDF>>

curvatureVars == <<fluidCurvatureThread,
                   isCalculateFluidCurvatureGridThreadRunning>>

mesherVars == <<mesherSnapshot, mesherPc, mesherReads>>

stageVars == <<stageFlags, mainStage, stageLog, curvatureVars, liveVars,
               mesherVars>>

solidVars == <<obstacles, objectStatus, isStaticSolidLevelSetPrecomputed,
               isPrecomputedSolidLevelSetUpToDate, isSolidLevelSetUpToDate,
               staticSolidSDF, staticChangeReported, lastStaticCombine>>

storeVars == <<attributeFlags, velocityTransferMethod,
               markerParticleLoadQueue, particleSystem, lastStoreOp,
               loadedBatches>>

kernelVars == <<maxThreadCount, kernelLaunch, kernelIntervals, kernelPos,
                kernelNear, kernelWrites, nearSolidGrid>>

boundaryVars == <<openBoundaryXNeg, openBoundaryXPos, openBoundaryWidth>>

jitterVars == <<markerParticleJitterFactor,
                isJitterSurfaceMarkerParticlesEnabled>>

sourceVars == <<meshFluidSources, addedFluidMeshObjectQueue, positions,
                boundaryVars, jitterVars, sourceLog>>

bindingVars == <<err, upscalingPrevious>>

\* What the frame driver's own operations leave alone.
nonFrameVars == <<stageVars, solidVars, storeVars, kernelVars, sourceVars,
                  bindingVars>>

\* What the stages of _stepFluid and their workers leave alone here.
nonStageVars == <<solidVars, storeVars, kernelVars, sourceVars, bindingVars>>

\* What the obstacle operations leave alone.
nonSolidVars == <<stageVars, storeVars, kernelVars, sourceVars, bindingVars>>

vars == <<frameVars, nonFrameVars>>

\* What a grid written once per frame holds: the frame and the substep
\* (counted from 1; 0: never) of its last write.
GridWrite(frame, substep) == [frame |-> frame, substep |-> substep]

\* A solver status: the success flag, the iteration count and the error.
SolverStatus(s, i, e) == [success |-> s, iterations |-> i, error |-> e]
StatusReset == SolverStatus(TRUE, 0, 0)

\* ------------------------------------------------------------------ Init
FrameInit ==
  /\ isSimulationInitialized = FALSE
  /\ minFrameTimeSteps = 1
  /\ maxFrameTimeSteps = 1
  /\ isAsynchronousMeshingEnabled = FALSE
  /\ isSurfaceMeshReconstructionEnabled = TRUE
  /\ isDebugOutputEnabled = FALSE
  /\ outputDataIsInitialized = FALSE
  /\ currentFrame = 0
  /\ currentFrameDeltaTime = 0
  /\ currentFrameDeltaTimeRemaining = 0
  /\ currentFrameTimeStep = 0
  /\ currentFrameTimeStepNumber = 0
  /\ isLastFrameTimeStep = FALSE
  /\ isZeroLengthDeltaTime = FALSE
  /\ isSkippedFrame = FALSE
  /\ isCurrentFrameFinished = TRUE
  /\ mesherThread = "none"
  /\ pressureSolver = StatusReset
  /\ viscositySolver = StatusReset
  /\ frameData = [frame |-> 0, substeps |-> 0, deltaTime |-> 0,
                  pressureSolver |-> StatusReset,
                  viscositySolver |-> StatusReset]
  /\ pc = "idle"
  /\ lastError = "none"
  /\ frameDtArg = 0
  /\ frameTimeSimulated = 0
  /\ solveLog = <<>>
  /\ viscosityLog = <<>>

\* ------------------------------------------------------ pure functions
\* _calculateNextTimeStep: the frame is cut into n equal substeps, n being
\* max(ceil(dt / (CFL dx / (maxu + 1e-6))), 1) -- an input, as maxu is.
CalculateNextTimeStep(dt, n) == dt \div Max(n, 1)

\* The substep length without the clamp of the last permitted substep.
NextFrameTimeStepNoMaxClamp(dt, rem, k, n, minSteps, maxSteps) ==
  LET substepTime   == dt \div minSteps
      timeStep      == Min(CalculateNextTimeStep(dt, n), rem)
      timeCompleted == dt - rem
      stepLimit     == (k + 1) * substepTime
  IN  IF timeCompleted + timeStep > stepLimit
      THEN Min(substepTime, rem)
      ELSE timeStep

\* The substep length without the fmin against the remaining frame time.
NextFrameTimeStepNoRemainingClamp(dt, rem, k, n, minSteps, maxSteps) ==
  LET substepTime   == dt \div minSteps
      timeStep      == CalculateNextTimeStep(dt, n)
      timeCompleted == dt - rem
      stepLimit     == (k + 1) * substepTime
      limited       == IF timeCompleted + timeStep > stepLimit
                       THEN substepTime
                       ELSE timeStep
  IN  IF k = maxSteps - 1 THEN rem ELSE limited

\* The length of the next substep, as the head of the do-loop of update()
\* computes it: dt and rem are _currentFrameDeltaTime and
\* _currentFrameDeltaTimeRemaining, k is _currentFrameTimeStepNumber.
NextFrameTimeStep(dt, rem, k, n, minSteps, maxSteps) ==
  LET substepTime   == dt \div minSteps
      timeStep      == Min(CalculateNextTimeStep(dt, n), rem)
      timeCompleted == dt - rem
      stepLimit     == (k + 1) * substepTime
      limited       == IF timeCompleted + timeStep > stepLimit
                       THEN Min(substepTime, rem)
                       ELSE timeStep
  IN  IF k = maxSteps - 1 THEN rem ELSE limited

\* What one call of PressureSolver::solve hands back. ran is FALSE when
\* _isFluidInSimulation() is false and the solver is not run at all.
SolveOutcome(r, s, i, e) ==
  [ran |-> r, success |-> s, iterations |-> i, error |-> e]
NoSolve == SolveOutcome(FALSE, TRUE, 0, 0)

\* The outcomes a pressure solve is given here: not run, or run with either
\* verdict and every iteration count (a failed solve has iterated); the
\* error tells failure from success.
SolveOutcomes ==
  {NoSolve} \cup
  {o \in {SolveOutcome(TRUE, s, i, IF s THEN 0 ELSE 1) :
            s \in BOOLEAN, i \in 0..MaxIterations} :
     o.success \/ o.iterations >= 1}

\* _pressureSolve: the status members after the call, from the members
\* before it, the substep number k and the outcome of the solve.
PressureSolve(status, k, o) ==
  LET reset == StatusReset
  IN  IF ~o.ran THEN reset
      ELSE IF k = 0 THEN SolverStatus(o.success, o.iterations, o.error)
      ELSE IF reset.success /\ (~o.success \/ o.iterations > reset.iterations)
           THEN SolverStatus(o.success, o.iterations, o.error)
           ELSE reset

\* _applyViscosityToVelocityField: the viscosity status members after the
\* call, from the members before it, the pressure status members (whose
\* iteration count the reduction compares with), the substep number k and
\* the outcome of the solve. Without viscosity, particles or a non-zero
\* viscosity grid the call returns before the solve.
ApplyViscosityToVelocityField(status, pressure, k, v) ==
  IF ~v.ran THEN status
  ELSE IF k = 0 THEN SolverStatus(v.success, v.iterations, v.error)
  ELSE IF status.success
          /\ (~v.success \/ v.iterations > pressure.iterations)
       THEN SolverStatus(v.success, v.iterations, v.error)
       ELSE status

\* _launchOutputSurfaceMeshThread followed by the join of
\* _outputSimulationData: the state of _mesherThread after the output step
\* of substep k. Assigning a new thread to a joinable std::thread calls
\* std::terminate.
OutputSimulationData(thread, k, isLast, async, recon) ==
  LET launched == IF k # 0 \/ ~recon THEN thread
                  ELSE IF thread # "none" THEN "terminate"
                  ELSE IF async THEN "running" ELSE "none"
  IN  IF launched = "terminate" THEN "terminate"
      ELSE IF isLast /\ async THEN "none"
      ELSE launched

\* ------------------------------------------------- the particle store
\* The attribute flags a column depends on. The surface and the fluid
\* particle flag of the age and of the source id are tested together
\* wherever they are tested, so each pair is one flag here; the two lifetime
\* flags are not (_updateSheetSeeding). COLOR and VISCOSITY are fetched and
\* pushed exactly where ID is and follow it.
AttributeFlags == {"Age", "SurfaceLifetime", "FluidParticleLifetime",
                   "SourceID", "FluidParticleID"}

AffineColumns == {"AFFINEX", "AFFINEY", "AFFINEZ"}

IsLifetimeAttributeEnabled(flags) ==
  "SurfaceLifetime" \in flags \/ "FluidParticleLifetime" \in flags

\* A set of columns, present when the condition holds.
ColumnsIf(cond, columns) == IF cond THEN columns ELSE {}

\* _initializeParticleSystems: the columns of _markerParticles.
InitializeParticleSystems(flags, method) ==
  LET names == {"POSITION", "VELOCITY"}
                 \cup ColumnsIf(method = "APIC", AffineColumns)
                 \cup ColumnsIf("Age" \in flags, {"AGE"})
                 \cup ColumnsIf(IsLifetimeAttributeEnabled(flags), {"LIFETIME"})
                 \cup ColumnsIf("SourceID" \in flags, {"SOURCEID"})
                 \cup ColumnsIf("FluidParticleID" \in flags, {"ID"})
  IN  [size |-> 0, columns |-> [c \in names |-> 0]]

\* push_back of n values on each of the named columns.
PushBack(columns, names, n) ==
  [c \in DOMAIN columns |-> IF c \in names THEN columns[c] + n
                            ELSE columns[c]]

\* ParticleSystem::update(): commits the pending growth -- every column is
\* filled up to the longest one, which gives the size.
ParticleSystemUpdate(columns) ==
  LET longest == CHOOSE m \in {columns[c] : c \in DOMAIN columns} \cup {0} :
                   \A c \in DOMAIN columns : columns[c] <= m
  IN  [size |-> longest, columns |-> [c \in DOMAIN columns |-> longest]]

\* ParticleSystem::removeParticles(mask) with k entries of the mask set.
RemoveParticles(ps, k) ==
  [size |-> ps.size - k,
   columns |-> [c \in DOMAIN ps.columns |-> ps.columns[c] - k]]

\* A batch of _markerParticleLoadQueue: the particles inside the domain and
\* the columns whose companion queue holds data of the batch's size.
LoadData(P, data) == [particles |-> P, data |-> data]

\* Positions are taken along one axis of the grid, in half cells: the
\* sub-cells of the ParticleMaskGrid. The grid has GridCells cells.
GridSubCells == 0..(2 * GridCells - 1)

\* Grid3d::positionToGridIndex
PositionToGridIndex(p) == IF p >= 0 THEN p \div 2 ELSE -1

\* Grid3d::isGridIndexInRange, AABB::isPointInside for the grid AABB
IsGridIndexInRange(g) == g >= 0 /\ g < GridCells

\* _loadMarkerParticles, _addMarkerParticles: the positions of a batch that
\* lie inside the grid.
PositionsInGrid(P) == {p \in P : IsGridIndexInRange(PositionToGridIndex(p))}

LoadableColumns == AffineColumns \cup {"AGE", "LIFETIME", "SOURCEID", "ID"}

\* The particles of the load calls of the store runs: none, one or two,
\* in the middle of the grid.
StoreLoadSets == {{}, {GridCells}, {GridCells, GridCells + 1}}

\* What a load call may carry: nothing but positions and velocities, the
\* age only, or every column.
LoadDataSets == {{}, {"AGE"}, LoadableColumns}

\* _loadMarkerParticles: the columns the batch is pushed on.
LoadedColumns(flags, method, data) ==
  {"POSITION", "VELOCITY"}
    \cup ColumnsIf(method = "APIC", AffineColumns \cap data)
    \cup ColumnsIf("Age" \in flags, {"AGE"} \cap data)
    \cup ColumnsIf(IsLifetimeAttributeEnabled(flags), {"LIFETIME"} \cap data)
    \cup ColumnsIf("SourceID" \in flags, {"SOURCEID"} \cap data)
    \cup ColumnsIf("FluidParticleID" \in flags, {"ID"} \cap data)

\* _loadMarkerParticles
LoadMarkerParticles(ps, flags, method, batch) ==
  IF batch.particles = {} THEN ps
  ELSE ParticleSystemUpdate(
         PushBack(ps.columns, LoadedColumns(flags, method, batch.data),
                  Cardinality(PositionsInGrid(batch.particles))))

\* _loadParticles: the companion data that is available, that of the
\* companion queues as long as the queue of the batches.
AvailableData(queue) ==
  {c \in LoadableColumns : \A i \in 1..Len(queue) : c \in queue[i].data}

\* _loadParticles: the batch handed to _loadMarkerParticles, with the
\* companion data that is available.
AvailableBatch(batch, available) ==
  LoadData(batch.particles, batch.data \cap available)

\* _loadParticles: the positions _loadMarkerParticles pushes on the store
\* for the batches of the queue.
LoadedPositions(queue) ==
  UNION {PositionsInGrid(queue[i].particles) : i \in 1..Len(queue)}

\* _loadParticles: the queue indices of the batches handed to
\* _loadMarkerParticles, in the order of the calls, most recent first.
LoadOrderLastFirst(queue) == [i \in 1..Len(queue) |-> Len(queue) + 1 - i]

\* _loadParticles: the queue indices of the batches handed to
\* _loadMarkerParticles, in the order of the calls.
LoadOrder(queue) == [i \in 1..Len(queue) |-> i]

\* _loadParticles: the store after the batches of the queue at the indices
\* of order have been loaded one after the other.
RECURSIVE LoadBatches(_, _, _, _, _)
LoadBatches(ps, flags, method, queue, order) ==
  IF order = <<>> THEN ps
  ELSE LoadBatches(
         LoadMarkerParticles(ps, flags, method,
           AvailableBatch(queue[Head(order)], AvailableData(queue))),
         flags, method, queue, Tail(order))

\* _loadParticles
LoadParticles(ps, flags, method, queue) ==
  LoadBatches(ps, flags, method, queue, LoadOrder(queue))

\* _addMarkerParticles: the columns it fetches and pushes on.
AddedColumns(flags) ==
  {"POSITION", "VELOCITY"}
    \cup ColumnsIf("SourceID" \in flags, {"SOURCEID"})
    \cup ColumnsIf(IsLifetimeAttributeEnabled(flags), {"LIFETIME"})
    \cup ColumnsIf("FluidParticleID" \in flags, {"ID"})

\* _addMarkerParticles that leaves out the closing update().
AddedMarkerParticlesNoUpdate(ps, flags, n) ==
  [size |-> ps.size + n,
   columns |-> PushBack(ps.columns, AddedColumns(flags), n)]

\* _addMarkerParticles with n of the particles inside the grid.
AddedMarkerParticles(ps, flags, n) ==
  ParticleSystemUpdate(PushBack(ps.columns, AddedColumns(flags), n))

\* _updateSheetSeeding: the columns it fetches ...
SheetFetchedColumns(flags) ==
  {"POSITION", "VELOCITY"}
    \cup ColumnsIf("Age" \in flags, {"AGE"})
    \cup ColumnsIf(IsLifetimeAttributeEnabled(flags), {"LIFETIME"})
    \cup ColumnsIf("FluidParticleID" \in flags, {"ID"})

\* ... and the columns it pushes on: the lifetime under the surface flag
\* alone, which the condition names twice.
SheetPushedColumns(flags) ==
  {"POSITION", "VELOCITY"}
    \cup ColumnsIf("Age" \in flags, {"AGE"})
    \cup ColumnsIf("SurfaceLifetime" \in flags, {"LIFETIME"})
    \cup ColumnsIf("FluidParticleID" \in flags, {"ID"})

\* _updateSheetSeeding with n sheet particles kept.
SheetSeededParticles(ps, flags, n) ==
  ParticleSystemUpdate(PushBack(ps.columns, SheetPushedColumns(flags), n))

\* ------------------------------------------------------ kernel launches
\* The simulation grid the kernels run over: isize x jsize x ksize cells.
isize == 3
jsize == 2
ksize == 1

\* _nearSolidGridCellSizeFactor: the near-solid grid is coarser than the
\* simulation grid by this factor.
nearSolidGridCellSizeFactor == 2

\* The values of _CFLConditionNumber a launch is run under.
CFLConditionNumbers == {1, 5}

\* ThreadUtils::splitRangeIntoIntervals: the range cut into numIntervals
\* equal intervals, the first ones longer by one where it does not divide.
SplitRangeIntoIntervals(rangeBegin, rangeEnd, numIntervals) ==
  IF numIntervals = 0 THEN <<rangeBegin>>
  ELSE LET size == (rangeEnd - rangeBegin) \div numIntervals
           rest == (rangeEnd - rangeBegin) % numIntervals
       IN  [i \in 1..(numIntervals + 1) |->
              rangeBegin + (i - 1) * size + Min(i - 1, rest)]

\* Grid3d::getUnflattenedIndex
GetUnflattenedIndex(idx) ==
  [i |-> idx % isize, j |-> (idx \div isize) % jsize,
   k |-> idx \div (isize * jsize)]

\* The cell of _nearSolidGrid a cell of the simulation grid falls in.
NearSolidCell(g) ==
  [i |-> g.i \div nearSolidGridCellSizeFactor,
   j |-> g.j \div nearSolidGridCellSizeFactor,
   k |-> g.k \div nearSolidGridCellSizeFactor]

\* ceil(a / b) of positive integers
CeilDiv(a, b) == (a + b - 1) \div b

\* The cells of _nearSolidGrid: gridi x gridj x gridk.
NearSolidCells ==
  {[i |-> i, j |-> j, k |-> k] :
     i \in 0..(CeilDiv(isize, nearSolidGridCellSizeFactor) - 1),
     j \in 0..(CeilDiv(jsize, nearSolidGridCellSizeFactor) - 1),
     k \in 0..(CeilDiv(ksize, nearSolidGridCellSizeFactor) - 1)}

\* GridUtils::featherGrid6: every cell with a set face neighbour is set.
FeatherGrid6(grid) ==
  grid \cup {c \in NearSolidCells :
               \E d \in grid :
                 Abs(c.i - d.i) + Abs(c.j - d.j) + Abs(c.k - d.k) = 1}

RECURSIVE FeatherLayers(_, _)
FeatherLayers(grid, numlayers) ==
  IF numlayers = 0 THEN grid
  ELSE FeatherLayers(FeatherGrid6(grid), numlayers - 1)

\* A kernel thread's loop that also runs on endidx.
ThreadRangeThroughEnd(startidx, endidx) == startidx..endidx

\* for (int i = startidx; i < endidx; i++): the indices a kernel thread
\* runs its loop on.
ThreadRange(startidx, endidx) == startidx..(endidx - 1)

\* One write of a kernel thread: the grid or column and the element.
KernelWrite(t, target, element) ==
  [thread |-> t, target |-> target, element |-> element]

\* The columns a pass of the velocity kernel writes entry i of.
VelocityKernelColumns(method) ==
  IF method = "APIC" THEN {"VELOCITY"} \cup AffineColumns ELSE {"VELOCITY"}

\* --------------------------------------------------------------- actions
\* initialize(): _initializeSimulation adds the columns of the particle
\* store and applies the queued particle loads.
InitializeCall ==
  /\ pc = "idle"
  /\ ~isSimulationInitialized
  /\ isSimulationInitialized' = TRUE
  /\ lastError' = "none"
  /\ particleSystem' =
       LoadParticles(InitializeParticleSystems(attributeFlags,
                                               velocityTransferMethod),
                     attributeFlags, velocityTransferMethod,
                     markerParticleLoadQueue)
  /\ lastStoreOp' = IF markerParticleLoadQueue = <<>> THEN lastStoreOp
                    ELSE "_loadMarkerParticles"
  /\ loadedBatches' = LoadOrder(markerParticleLoadQueue)
  /\ markerParticleLoadQueue' = <<>>
  /\ UNCHANGED <<configVars, timeVars, historyVars, outputDataIsInitialized,
                 currentFrame, isCurrentFrameFinished, mesherThread,
                 solverVars, frameData, pc>>
  /\ positions' = LoadedPositions(markerParticleLoadQueue)
  /\ UNCHANGED <<attributeFlags, velocityTransferMethod>>
  /\ UNCHANGED <<meshFluidSources, addedFluidMeshObjectQueue, boundaryVars,
                 jitterVars, sourceLog>>
  /\ UNCHANGED <<stageVars, solidVars, kernelVars>>

\* initialize() called on the object.
Initialize == InitializeCall /\ UNCHANGED bindingVars

\* setMinTimeStepsPerFrame(n)
setMinTimeStepsPerFrame(n) ==
  /\ pc = "idle"
  /\ IF n < 1
     THEN /\ lastError' = "domain_error"
          /\ UNCHANGED minFrameTimeSteps
     ELSE /\ lastError' = "none"
          /\ minFrameTimeSteps' = n
  /\ UNCHANGED <<isSimulationInitialized, maxFrameTimeSteps,
                 isAsynchronousMeshingEnabled,
                 isSurfaceMeshReconstructionEnabled, isDebugOutputEnabled,
                 timeVars, historyVars, outputDataIsInitialized, currentFrame,
                 isCurrentFrameFinished, mesherThread, solverVars,
                 frameData, pc>>
  /\ UNCHANGED nonFrameVars

\* The validation of setMaxTimeStepsPerFrame: the values it rejects.
IsInvalidMaxTimeSteps(n) == n < 1

\* setMaxTimeStepsPerFrame(n)
setMaxTimeStepsPerFrameCall(n) ==
  /\ pc = "idle"
  /\ IF IsInvalidMaxTimeSteps(n)
     THEN /\ lastError' = "domain_error"
          /\ UNCHANGED maxFrameTimeSteps
     ELSE /\ lastError' = "none"
          /\ maxFrameTimeSteps' = n
  /\ UNCHANGED <<isSimulationInitialized, minFrameTimeSteps,
                 isAsynchronousMeshingEnabled,
                 isSurfaceMeshReconstructionEnabled, isDebugOutputEnabled,
                 timeVars, historyVars, outputDataIsInitialized, currentFrame,
                 isCurrentFrameFinished, mesherThread, solverVars,
                 frameData, pc>>
  /\ UNCHANGED <<stageVars, solidVars, storeVars, kernelVars, sourceVars>>

\* setMaxTimeStepsPerFrame(n) called on the object.
setMaxTimeStepsPerFrame(n) == setMaxTimeStepsPerFrameCall(n) /\ UNCHANGED bindingVars

\* enableAsynchronousMeshing() / disableAsynchronousMeshing()
setAsynchronousMeshing(b) ==
  /\ pc = "idle"
  /\ isAsynchronousMeshingEnabled' = b
  /\ lastError' = "none"
  /\ UNCHANGED <<isSimulationInitialized, minFrameTimeSteps,
                 maxFrameTimeSteps, isSurfaceMeshReconstructionEnabled,
                 isDebugOutputEnabled, timeVars, historyVars,
                 outputDataIsInitialized, currentFrame,
                 isCurrentFrameFinished, mesherThread, solverVars,
                 frameData, pc>>
  /\ UNCHANGED nonFrameVars

\* enableSurfaceReconstruction() / disableSurfaceReconstruction()
setSurfaceReconstruction(b) ==
  /\ pc = "idle"
  /\ isSurfaceMeshReconstructionEnabled' = b
  /\ lastError' = "none"
  /\ UNCHANGED <<isSimulationInitialized, minFrameTimeSteps,
                 maxFrameTimeSteps, isAsynchronousMeshingEnabled,
                 isDebugOutputEnabled, timeVars, historyVars,
                 outputDataIsInitialized, currentFrame,
                 isCurrentFrameFinished, mesherThread, solverVars,
                 frameData, pc>>
  /\ UNCHANGED nonFrameVars

\* enableFluidParticleDebugOutput() / disableFluidParticleDebugOutput()
setFluidParticleDebugOutput(b) ==
  /\ pc = "idle"
  /\ isDebugOutputEnabled' = b
  /\ lastError' = "none"
  /\ UNCHANGED <<isSimulationInitialized, minFrameTimeSteps,
                 maxFrameTimeSteps, isAsynchronousMeshingEnabled,
                 isSurfaceMeshReconstructionEnabled, timeVars, historyVars,
                 outputDataIsInitialized, currentFrame,
                 isCurrentFrameFinished, mesherThread, solverVars,
                 frameData, pc>>
  /\ UNCHANGED nonFrameVars

\* update(dt) skipping no frame.
IsSkippedFrameNever(isZeroLength, outputInitialized, isDebuggingEnabled) == FALSE

\* _isSkippedFrame as update(dt) sets it: a frame of zero length, after the
\* output data of a first frame is there, with no debug output enabled.
IsSkippedFrame(isZeroLength, outputInitialized, isDebuggingEnabled) ==
  isZeroLength /\ outputInitialized /\ ~isDebuggingEnabled

\* The checks of update(dt) without the one of _isSimulationInitialized.
UpdateErrorUninitialized(initialized, dt) ==
  IF dt < 0 THEN "domain_error" ELSE "none"

\* update(dt): the exception of its two checks, in their order -- a
\* runtime_error before initialize(), a domain_error for a negative dt.
UpdateError(initialized, dt) ==
  IF ~initialized THEN "runtime_error"
  ELSE IF dt < 0 THEN "domain_error"
  ELSE "none"

\* update(dt) up to the do-loop: the two checks that throw, then the
\* per-frame state.
UpdateCall(dt) ==
  /\ pc = "idle"
  /\ currentFrame < MaxFrames
  /\ IF UpdateError(isSimulationInitialized, dt) # "none"
     THEN /\ lastError' = UpdateError(isSimulationInitialized, dt)
          /\ UNCHANGED <<timeVars, historyVars, isCurrentFrameFinished,
                         solverVars, pc>>
     ELSE /\ lastError' = "none"
          /\ isZeroLengthDeltaTime' = (dt < EpsDt)
          /\ isCurrentFrameFinished' = FALSE
          /\ currentFrameDeltaTime' = Max(dt, EpsDt)
          /\ currentFrameDeltaTimeRemaining' = Max(dt, EpsDt)
          /\ currentFrameTimeStepNumber' = 0
          /\ isSkippedFrame' = IsSkippedFrame(dt < EpsDt,
                                               outputDataIsInitialized,
                                               isDebugOutputEnabled)
          /\ pressureSolver' = StatusReset
          /\ viscositySolver' = StatusReset
          /\ frameDtArg' = dt
          /\ frameTimeSimulated' = 0
          /\ solveLog' = <<>>
          /\ viscosityLog' = <<>>
          /\ pc' = "loop"
          /\ UNCHANGED <<currentFrameTimeStep, isLastFrameTimeStep>>
  /\ UNCHANGED <<isSimulationInitialized, configVars, outputDataIsInitialized,
                 currentFrame, mesherThread, frameData>>
  /\ UNCHANGED <<stageVars, solidVars, storeVars, kernelVars, sourceVars>>

\* update(dt) called on the object, up to the do-loop.
UpdateBegin(dt) == UpdateCall(dt) /\ UNCHANGED bindingVars

\* One pass of the do-loop of update(): the substep length, _stepFluid
\* (the pressure solve and the output step are the parts that touch the
\* state kept here), the step counter and the loop test. n is the substep
\* count _calculateNextTimeStep arrives at, v the outcome of the viscosity
\* solve, o that of the pressure solve, which comes after it.
Substep(n, v, o) ==
  /\ pc = "loop"
  /\ LET timeStep  == NextFrameTimeStep(currentFrameDeltaTime,
                         currentFrameDeltaTimeRemaining,
                         currentFrameTimeStepNumber, n,
                         minFrameTimeSteps, maxFrameTimeSteps)
         remaining == currentFrameDeltaTimeRemaining - timeStep
         isLast    == Abs(remaining) < Eps
         thread    == IF isSkippedFrame THEN mesherThread
                      ELSE OutputSimulationData(mesherThread,
                             currentFrameTimeStepNumber, isLast,
                             isAsynchronousMeshingEnabled,
                             isSurfaceMeshReconstructionEnabled)
     IN  /\ currentFrameTimeStep' = timeStep
         /\ currentFrameDeltaTimeRemaining' = remaining
         /\ isLastFrameTimeStep' = isLast
         /\ frameTimeSimulated' = frameTimeSimulated + timeStep
         /\ IF isSkippedFrame
            THEN UNCHANGED <<solverVars, solveLog, viscosityLog>>
            ELSE /\ viscositySolver' =
                      ApplyViscosityToVelocityField(viscositySolver,
                        pressureSolver, currentFrameTimeStepNumber, v)
                 /\ viscosityLog' = Append(viscosityLog, v)
                 /\ pressureSolver' = PressureSolve(pressureSolver,
                                         currentFrameTimeStepNumber, o)
                 /\ solveLog' = Append(solveLog, o)
         /\ IF thread = "terminate"
            THEN /\ pc' = "terminated"
                 /\ UNCHANGED <<mesherThread, currentFrameTimeStepNumber>>
            ELSE /\ mesherThread' = thread
                 /\ currentFrameTimeStepNumber' = currentFrameTimeStepNumber + 1
                 /\ pc' = IF remaining > Eps THEN "loop" ELSE "finish"
  /\ UNCHANGED <<isSimulationInitialized, configVars, outputDataIsInitialized,
                 currentFrame, currentFrameDeltaTime, isZeroLengthDeltaTime,
                 isSkippedFrame, isCurrentFrameFinished, frameData, lastError,
                 frameDtArg>>
  /\ UNCHANGED nonFrameVars

\* update(dt) after the do-loop: the frame stats and the frame counter.
UpdateReturn ==
  /\ pc = "finish"
  /\ frameData' = [frame |-> currentFrame,
                   substeps |-> currentFrameTimeStepNumber,
                   deltaTime |-> currentFrameDeltaTime,
                   pressureSolver |-> pressureSolver,
                   viscositySolver |-> viscositySolver]
  /\ outputDataIsInitialized' = TRUE
  /\ currentFrame' = currentFrame + 1
  /\ isCurrentFrameFinished' = TRUE
  /\ pc' = "idle"
  /\ UNCHANGED <<isSimulationInitialized, configVars, timeVars, historyVars,
                 mesherThread, solverVars, lastError>>
  /\ UNCHANGED nonFrameVars

\* The output worker runs to the end of _outputSurfaceMeshThread.
MesherThreadFinish ==
  /\ mesherThread = "running"
  /\ mesherThread' = "finished"
  /\ UNCHANGED <<isSimulationInitialized, configVars, timeVars, historyVars,
                 outputDataIsInitialized, currentFrame, isCurrentFrameFinished,
                 solverVars, frameData, pc, lastError>>
  /\ UNCHANGED nonFrameVars

\* ------------------------------------------------- the frame driver
StageInit ==
  /\ isSurfaceTensionEnabled = FALSE
  /\ isSheetSeedingEnabled = FALSE
  /\ isDiffuseMaterialOutputEnabled = FALSE
  /\ isInvertedContactNormalsEnabled = FALSE
  /\ mainStage = 0
  /\ stageLog = <<>>
  /\ fluidCurvatureThread = "none"
  /\ isCalculateFluidCurvatureGridThreadRunning = FALSE
  /\ markerParticles = 0
  /\ solidSDF = 0
  /\ MACVelocity = 0
  /\ attributeGrids = GridWrite(0, 0)
  /\ meshingVolumeSDF = GridWrite(0, 0)
  /\ mesherSnapshot = [particles |-> 0, solidSDF |-> 0, vfield |-> 0,
                       sourceID |-> 0]
  /\ mesherPc = "done"
  /\ mesherReads = {}

\* The mesh obstacles a client holds; obstacle 1 is static, 2 is animated.
Obstacles == {1, 2}
IsAnimated(o) == o = 2

\* A MeshObjectStatus, of an enabled obstacle.
ObjectStatus(stateChanged, meshChanged) ==
  [isStateChanged |-> stateChanged, isMeshChanged |-> meshChanged]
StatusCleared == ObjectStatus(FALSE, FALSE)

\* _staticSolidSDF: whether it has been built, and the obstacles it was
\* built from.
StaticSDF(built, statics) == [built |-> built, statics |-> statics]

SolidInit ==
  /\ obstacles = <<>>
  /\ objectStatus = [o \in Obstacles |-> StatusCleared]
  /\ isStaticSolidLevelSetPrecomputed = FALSE
  /\ isPrecomputedSolidLevelSetUpToDate = FALSE
  /\ isSolidLevelSetUpToDate = FALSE
  /\ staticSolidSDF = StaticSDF(FALSE, {})
  /\ staticChangeReported = FALSE
  /\ lastStaticCombine = "none"

StoreInit ==
  /\ attributeFlags = {}
  /\ velocityTransferMethod = "FLIP"
  /\ markerParticleLoadQueue = <<>>
  /\ particleSystem = [size |-> 0, columns |-> <<>>]
  /\ lastStoreOp = "none"
  /\ loadedBatches = <<>>

KernelInit ==
  /\ maxThreadCount = 1
  /\ kernelLaunch = "none"
  /\ kernelIntervals = <<>>
  /\ kernelPos = <<>>
  /\ kernelNear = {}
  /\ kernelWrites = {}
  /\ nearSolidGrid = {}

\* No source, no fluid object, no particle; every side of the domain
\* closed.
SourceInit ==
  /\ meshFluidSources = <<>>
  /\ addedFluidMeshObjectQueue = <<>>
  /\ positions = {}
  /\ openBoundaryXNeg = FALSE
  /\ openBoundaryXPos = FALSE
  /\ openBoundaryWidth = 1
  /\ markerParticleJitterFactor = 1
  /\ isJitterSurfaceMarkerParticlesEnabled = FALSE
  /\ sourceLog = <<>>

\* No C entry point has been called: the caller's err holds nothing yet,
\* and no upscaling is asked for.
BindingInit ==
  /\ err = "unset"
  /\ upscalingPrevious = <<0, 0, 0, 0>>

Init ==
  /\ FrameInit /\ StageInit /\ SolidInit /\ StoreInit /\ KernelInit
  /\ SourceInit /\ BindingInit

Next ==
  \/ Initialize
  \/ \E n \in StepSettings : setMinTimeStepsPerFrame(n)
  \/ \E n \in StepSettings : setMaxTimeStepsPerFrame(n)
  \/ \E b \in BOOLEAN : setAsynchronousMeshing(b)
  \/ \E b \in BOOLEAN : setSurfaceReconstruction(b)
  \/ \E b \in BOOLEAN : setFluidParticleDebugOutput(b)
  \/ \E dt \in FrameDts : UpdateBegin(dt)
  \/ \E n \in StepCountsFor(currentFrameDeltaTime) : Substep(n, NoSolve, NoSolve)
  \/ UpdateReturn
  \/ MesherThreadFinish

Spec == Init /\ [][Next]_vars

\* ------------------------------------------- the frame driver, solver runs
\* The same driver with every outcome of the pressure solve, on frames of
\* up to SolverSteps substeps.
SolverNext ==
  \/ Initialize
  \/ \E n \in 1..SolverSteps : setMaxTimeStepsPerFrame(n)
  \/ UpdateBegin(EpsDt)
  \/ \E n \in StepCountsFor(currentFrameDeltaTime), o \in SolveOutcomes :
       Substep(n, NoSolve, o)
  \/ UpdateReturn

SpecSolver == Init /\ [][SolverNext]_vars

\* The pressure outcomes beside which the viscosity solve is looked at:
\* successful solves with the least and the greatest iteration count.
PressureIterationOutcomes ==
  {SolveOutcome(TRUE, TRUE, i, 0) : i \in {0, MaxIterations}}

\* The frame driver with every outcome of the viscosity solve of a substep.
ViscosityNext ==
  \/ Initialize
  \/ \E n \in 1..ViscositySteps : setMaxTimeStepsPerFrame(n)
  \/ UpdateBegin(EpsDt)
  \/ \E n \in StepCountsFor(currentFrameDeltaTime), v \in SolveOutcomes,
        o \in PressureIterationOutcomes :
       Substep(n, v, o)
  \/ UpdateReturn

SpecViscosity == Init /\ [][ViscosityNext]_vars

\* ------------------------------------------ _stepFluid, stage by stage
\* The calls of _stepFluid in the order the function makes them. The main
\* thread is in stage mainStage (0: outside _stepFluid); a stage's writes
\* are in place when the main thread leaves it.
StepFluidStages ==
  << "updateObstacleObjects", "updateLiquidLevelSet", "advectVelocityField",
     "launchCalculateFluidCurvatureGridThread", "saveVelocityField",
     "applyBodyForcesToVelocityField", "applyViscosityToVelocityField",
     "joinCurvatureForSurfaceTension", "pressureSolve",
     "constrainVelocityFields", "joinCurvatureForDiffuseMaterial",
     "updateDiffuseMaterial", "joinCurvatureForSheetSeeding",
     "updateSheetSeeding", "updateMarkerParticleVelocities",
     "deleteSavedVelocityField", "advanceMarkerParticles",
     "updateFluidObjects", "updateMarkerParticleAttributes",
     "outputSimulationData", "joinOutputSurfaceMeshThread" >>

StageName(i) == IF i \in 1..Len(StepFluidStages) THEN StepFluidStages[i]
                ELSE "none"

\* The stages that compute; the others only launch or join a worker.
ComputeStages ==
  {"updateObstacleObjects", "updateLiquidLevelSet", "advectVelocityField",
   "saveVelocityField", "applyBodyForcesToVelocityField",
   "applyViscosityToVelocityField", "pressureSolve",
   "constrainVelocityFields", "updateDiffuseMaterial", "updateSheetSeeding",
   "updateMarkerParticleVelocities", "deleteSavedVelocityField",
   "advanceMarkerParticles", "updateFluidObjects",
   "updateMarkerParticleAttributes", "outputSimulationData"}

\* _stepFluid launching the curvature worker whatever the flags.
LaunchesCurvatureAlways == TRUE

\* Whether _stepFluid launches the curvature worker.
LaunchesCurvature ==
  isSurfaceTensionEnabled \/ isSheetSeedingEnabled
    \/ isDiffuseMaterialOutputEnabled

\* The joins of _stepFluid without the one before sheet seeding.
SkipsJoinAndSheetSeedingJoin(stage) ==
  \/ stage = "joinCurvatureForSurfaceTension" /\ ~isSurfaceTensionEnabled
  \/ stage = "joinCurvatureForDiffuseMaterial"
       /\ ~isDiffuseMaterialOutputEnabled
  \/ stage = "joinCurvatureForSheetSeeding"

\* Whether _stepFluid makes no join call at a join stage: each of the three
\* joins of the curvature worker is made only under its own flag.
SkipsJoin(stage) ==
  \/ stage = "joinCurvatureForSurfaceTension" /\ ~isSurfaceTensionEnabled
  \/ stage = "joinCurvatureForDiffuseMaterial"
       /\ ~isDiffuseMaterialOutputEnabled
  \/ stage = "joinCurvatureForSheetSeeding" /\ ~isSheetSeedingEnabled

\* The live objects a stage writes.
WritesMarkerParticles(stage) ==
  stage \in {"updateSheetSeeding", "advanceMarkerParticles",
             "updateFluidObjects"}
WritesMACVelocity(stage) ==
  stage \in {"advectVelocityField", "applyBodyForcesToVelocityField",
             "applyViscosityToVelocityField", "pressureSolve",
             "constrainVelocityFields"}
WritesSolidSDF(stage) == stage = "updateObstacleObjects"

\* The attribute grids written in every substep.
WritesAttributeGridsEverySubstep(stage, k) ==
  stage = "updateMarkerParticleAttributes"

\* _updateMarkerParticleAttributes writes the velocity, vorticity, age,
\* lifetime, whitewater proximity, viscosity and colour attribute grids
\* under _currentFrameTimeStepNumber == 0 (k is that number);
\* _updateSheetSeeding works on copies of them.
WritesAttributeGrids(stage, k) ==
  stage = "updateMarkerParticleAttributes" /\ k = 0

\* _updateMeshingVolumeSDF, called by _updateObstacleObjects, returns at
\* once when _currentFrameTimeStepNumber != 0.
WritesMeshingVolumeSDF(stage, k) ==
  stage = "updateObstacleObjects" /\ k = 0

\* The stamp of what a stage of the current substep writes.
WriteStamp == currentFrameTimeStepNumber + 1

\* The copies as they would be were they the live objects themselves: a
\* write of the main thread shows in them.
SnapshotSharedWithLive(snapshot, stage, stamp) ==
  [particles |-> IF WritesMarkerParticles(stage) THEN stamp
                 ELSE snapshot.particles,
   solidSDF  |-> snapshot.solidSDF,
   vfield    |-> IF WritesMACVelocity(stage) THEN stamp ELSE snapshot.vfield,
   sourceID  |-> IF WritesMarkerParticles(stage) THEN stamp
                 ELSE snapshot.sourceID]

\* The copies handed to the output worker after the main thread has run a
\* stage that stamps what it writes: _launchOutputSurfaceMeshThread filled
\* objects it allocated itself and passed the only pointers to them to the
\* worker, so no stage reaches them.
SnapshotAfterStage(snapshot, stage, stamp) == snapshot

\* update(), head of the do-loop: the substep length; then _stepFluid is
\* entered. On a skipped frame _stepFluid does nothing and the pass ends.
StepBegin(n) ==
  /\ pc = "loop"
  /\ mainStage = 0
  /\ LET timeStep  == NextFrameTimeStep(currentFrameDeltaTime,
                         currentFrameDeltaTimeRemaining,
                         currentFrameTimeStepNumber, n,
                         minFrameTimeSteps, maxFrameTimeSteps)
         remaining == currentFrameDeltaTimeRemaining - timeStep
     IN  /\ currentFrameTimeStep' = timeStep
         /\ currentFrameDeltaTimeRemaining' = remaining
         /\ isLastFrameTimeStep' = (Abs(remaining) < Eps)
         /\ frameTimeSimulated' = frameTimeSimulated + timeStep
         /\ IF isSkippedFrame
            THEN /\ currentFrameTimeStepNumber' = currentFrameTimeStepNumber + 1
                 /\ pc' = IF remaining > Eps THEN "loop" ELSE "finish"
                 /\ UNCHANGED <<mainStage, stageLog>>
            ELSE /\ mainStage' = 1
                 /\ stageLog' = <<>>
                 /\ pc' = "step"
                 /\ UNCHANGED currentFrameTimeStepNumber
  /\ UNCHANGED <<isSimulationInitialized, configVars, outputDataIsInitialized,
                 currentFrame, currentFrameDeltaTime, isZeroLengthDeltaTime,
                 isSkippedFrame, isCurrentFrameFinished, mesherThread,
                 solverVars, frameData, lastError, frameDtArg, solveLog,
                 viscosityLog>>
  /\ UNCHANGED <<stageFlags, curvatureVars, liveVars, mesherVars>>
  /\ UNCHANGED nonStageVars

\* The main thread completes a computing stage of _stepFluid other than
\* the output step. obstacleChanged: whether _updateSolidLevelSet rebuilds
\* the solid SDF in this substep; gridsChanged: whether the other
\* conditions of the once-per-frame grid writes hold (the attribute is
\* enabled and there is fluid; a meshing volume is set and not up to date);
\* v, o: the outcomes of the viscosity and of the pressure solve.
StageDone(obstacleChanged, gridsChanged, v, o) ==
  /\ pc = "step"
  /\ StageName(mainStage) \in ComputeStages \ {"outputSimulationData"}
  /\ LET stage == StageName(mainStage)
     IN  /\ markerParticles' = IF WritesMarkerParticles(stage)
                               THEN WriteStamp ELSE markerParticles
         /\ MACVelocity' = IF WritesMACVelocity(stage)
                           THEN WriteStamp ELSE MACVelocity
         /\ solidSDF' = IF WritesSolidSDF(stage) /\ obstacleChanged
                        THEN WriteStamp ELSE solidSDF
         /\ attributeGrids' =
              IF WritesAttributeGrids(stage, currentFrameTimeStepNumber)
                   /\ gridsChanged
              THEN GridWrite(currentFrame, WriteStamp) ELSE attributeGrids
         /\ meshingVolumeSDF' =
              IF WritesMeshingVolumeSDF(stage, currentFrameTimeStepNumber)
                   /\ gridsChanged
              THEN GridWrite(currentFrame, WriteStamp) ELSE meshingVolumeSDF
         /\ IF stage = "pressureSolve"
            THEN /\ pressureSolver' = PressureSolve(pressureSolver,
                                         currentFrameTimeStepNumber, o)
                 /\ solveLog' = Append(solveLog, o)
            ELSE UNCHANGED <<pressureSolver, solveLog>>
         /\ IF stage = "applyViscosityToVelocityField"
            THEN /\ viscositySolver' =
                      ApplyViscosityToVelocityField(viscositySolver,
                        pressureSolver, currentFrameTimeStepNumber, v)
                 /\ viscosityLog' = Append(viscosityLog, v)
            ELSE UNCHANGED <<viscositySolver, viscosityLog>>
  /\ mainStage' = mainStage + 1
  /\ stageLog' = Append(stageLog, StageName(mainStage))
  /\ UNCHANGED <<isSimulationInitialized, configVars, timeVars,
                 outputDataIsInitialized, currentFrame,
                 isCurrentFrameFinished, mesherThread, frameData, pc,
                 lastError, frameDtArg, frameTimeSimulated>>
  /\ mesherSnapshot' = SnapshotAfterStage(mesherSnapshot,
                                          StageName(mainStage), WriteStamp)
  /\ UNCHANGED <<stageFlags, curvatureVars, mesherPc, mesherReads>>
  /\ UNCHANGED nonStageVars

\* _launchCalculateFluidCurvatureGridThread, under the condition of
\* _stepFluid. Assigning to a joinable std::thread calls std::terminate.
LaunchCurvature ==
  /\ pc = "step"
  /\ StageName(mainStage) = "launchCalculateFluidCurvatureGridThread"
  /\ IF ~LaunchesCurvature
     THEN /\ mainStage' = mainStage + 1
          /\ UNCHANGED <<curvatureVars, pc>>
     ELSE IF fluidCurvatureThread # "none"
     THEN /\ pc' = "terminated"
          /\ UNCHANGED <<curvatureVars, mainStage>>
     ELSE /\ fluidCurvatureThread' = "running"
          /\ isCalculateFluidCurvatureGridThreadRunning' = TRUE
          /\ mainStage' = mainStage + 1
          /\ UNCHANGED pc
  /\ UNCHANGED <<isSimulationInitialized, configVars, timeVars, historyVars,
                 outputDataIsInitialized, currentFrame,
                 isCurrentFrameFinished, mesherThread, solverVars,
                 frameData, lastError>>
  /\ UNCHANGED <<stageFlags, stageLog, liveVars, mesherVars>>
  /\ UNCHANGED nonStageVars

\* _calculateFluidCurvatureGridThread runs to its end.
CurvatureThreadFinish ==
  /\ fluidCurvatureThread = "running"
  /\ fluidCurvatureThread' = "finished"
  /\ UNCHANGED <<frameVars, stageFlags, mainStage, stageLog,
                 isCalculateFluidCurvatureGridThreadRunning, liveVars,
                 mesherVars>>
  /\ UNCHANGED nonStageVars

\* _joinCalculateFluidCurvatureGridThread, under the flag of its call in
\* _stepFluid: returns at once when no worker is marked running, otherwise
\* returns when the worker has ended.
JoinCurvature ==
  /\ pc = "step"
  /\ StageName(mainStage) \in {"joinCurvatureForSurfaceTension",
                               "joinCurvatureForDiffuseMaterial",
                               "joinCurvatureForSheetSeeding"}
  /\ IF SkipsJoin(StageName(mainStage))
        \/ ~isCalculateFluidCurvatureGridThreadRunning
     THEN UNCHANGED curvatureVars
     ELSE /\ fluidCurvatureThread = "finished"
          /\ fluidCurvatureThread' = "none"
          /\ isCalculateFluidCurvatureGridThreadRunning' = FALSE
  /\ mainStage' = mainStage + 1
  /\ UNCHANGED <<frameVars, stageFlags, stageLog, liveVars, mesherVars>>
  /\ UNCHANGED nonStageVars

\* _launchOutputSurfaceMeshThread, called by _outputSimulationData on the
\* first substep of the frame: the copies are taken and the worker started.
\* Assigning to a joinable std::thread calls std::terminate.
LaunchOutputSurfaceMeshThread ==
  /\ pc = "step"
  /\ StageName(mainStage) = "outputSimulationData"
  /\ IF currentFrameTimeStepNumber # 0 \/ ~isSurfaceMeshReconstructionEnabled
     THEN /\ mainStage' = mainStage + 1
          /\ stageLog' = Append(stageLog, StageName(mainStage))
          /\ UNCHANGED <<mesherThread, mesherVars, pc>>
     ELSE IF mesherThread # "none"
     THEN /\ pc' = "terminated"
          /\ UNCHANGED <<mesherThread, mesherVars, mainStage, stageLog>>
     ELSE /\ mesherSnapshot' = [particles |-> markerParticles,
                                solidSDF |-> solidSDF,
                                vfield |-> MACVelocity,
                                sourceID |-> markerParticles]
          /\ mesherThread' = "running"
          /\ mesherPc' = "generateOutputSurface"
          /\ mesherReads' = {}
          /\ mainStage' = mainStage + 1
          /\ stageLog' = Append(stageLog, StageName(mainStage))
          /\ UNCHANGED pc
  /\ UNCHANGED <<isSimulationInitialized, configVars, timeVars, historyVars,
                 outputDataIsInitialized, currentFrame,
                 isCurrentFrameFinished, solverVars, frameData,
                 lastError>>
  /\ UNCHANGED <<stageFlags, curvatureVars, liveVars>>
  /\ UNCHANGED nonStageVars

\* A read by the output worker: what object, and the stamp seen.
MesherRead(w, v) == [what |-> w, value |-> v]

\* What the output worker reads in each part of _outputSurfaceMeshThread.
\* _generateOutputSurface takes the copied particles and solid SDF and
\* tests _markerParticles.empty(); the motion blur and velocity attributes
\* take the copied velocity field, the source id attribute the copied
\* source ids; _invertContactNormals interpolates
\* _solidSDF when inverted contact normals are enabled.
MesherReadsAt(part) ==
  IF part = "generateOutputSurface"
  THEN {MesherRead("particles", mesherSnapshot.particles),
        MesherRead("solidSDF", mesherSnapshot.solidSDF),
        MesherRead("particles", markerParticles)}
  ELSE IF part = "generateSurfaceAttributes"
  THEN {MesherRead("vfield", mesherSnapshot.vfield),
        MesherRead("sourceID", mesherSnapshot.sourceID)}
  ELSE IF part = "invertContactNormals" /\ isInvertedContactNormalsEnabled
  THEN {MesherRead("solidSDF", solidSDF)}
  ELSE {}

\* The part of _outputSurfaceMeshThread that follows a part.
MesherPartAfter(part) ==
  IF part = "generateOutputSurface" THEN "generateSurfaceAttributes"
  ELSE IF part = "generateSurfaceAttributes" THEN "invertContactNormals"
  ELSE "done"

\* The output worker runs one part of _outputSurfaceMeshThread.
OutputSurfaceMeshThreadStep ==
  /\ mesherThread = "running"
  /\ mesherPc # "done"
  /\ mesherReads' = mesherReads \cup MesherReadsAt(mesherPc)
  /\ mesherPc' = MesherPartAfter(mesherPc)
  /\ mesherThread' = IF MesherPartAfter(mesherPc) = "done" THEN "finished"
                     ELSE "running"
  /\ UNCHANGED <<isSimulationInitialized, configVars, timeVars, historyVars,
                 outputDataIsInitialized, currentFrame,
                 isCurrentFrameFinished, solverVars, frameData, pc,
                 lastError>>
  /\ UNCHANGED <<stageFlags, mainStage, stageLog, curvatureVars, liveVars,
                 mesherSnapshot>>
  /\ UNCHANGED nonStageVars

\* The joins of the output worker -- at the end of
\* _launchOutputSurfaceMeshThread without asynchronous meshing, in
\* _outputSimulationData on the last substep with it -- then the tail of
\* the do-loop of update(): the step counter and the loop test.
JoinOutputSurfaceMeshThread ==
  /\ pc = "step"
  /\ StageName(mainStage) = "joinOutputSurfaceMeshThread"
  /\ LET joins ==
           \/ /\ currentFrameTimeStepNumber = 0
              /\ isSurfaceMeshReconstructionEnabled
              /\ ~isAsynchronousMeshingEnabled
           \/ isLastFrameTimeStep /\ isAsynchronousMeshingEnabled
     IN  IF joins /\ mesherThread # "none"
         THEN /\ mesherThread = "finished"
              /\ mesherThread' = "none"
         ELSE UNCHANGED mesherThread
  /\ mainStage' = 0
  /\ currentFrameTimeStepNumber' = currentFrameTimeStepNumber + 1
  /\ pc' = IF currentFrameDeltaTimeRemaining > Eps THEN "loop" ELSE "finish"
  /\ UNCHANGED <<isSimulationInitialized, configVars, historyVars,
                 outputDataIsInitialized, currentFrame, currentFrameDeltaTime,
                 currentFrameDeltaTimeRemaining, currentFrameTimeStep,
                 isLastFrameTimeStep, isZeroLengthDeltaTime, isSkippedFrame,
                 isCurrentFrameFinished, solverVars, frameData,
                 lastError>>
  /\ UNCHANGED <<stageFlags, stageLog, curvatureVars, liveVars, mesherVars>>
  /\ UNCHANGED nonStageVars

\* setSurfaceTension(k): a negative k is refused, the flag is k > 1e-6.
setSurfaceTension(k) ==
  /\ pc = "idle"
  /\ IF k < 0
     THEN /\ lastError' = "domain_error"
          /\ UNCHANGED isSurfaceTensionEnabled
     ELSE /\ lastError' = "none"
          /\ isSurfaceTensionEnabled' = (k > 0)
  /\ UNCHANGED <<isSimulationInitialized, configVars, timeVars, historyVars,
                 outputDataIsInitialized, currentFrame,
                 isCurrentFrameFinished, mesherThread, solverVars,
                 frameData, pc>>
  /\ UNCHANGED <<isSheetSeedingEnabled, isDiffuseMaterialOutputEnabled,
                 isInvertedContactNormalsEnabled, mainStage, stageLog,
                 curvatureVars,
                 liveVars, mesherVars>>
  /\ UNCHANGED nonStageVars

\* enableSheetSeeding() / disableSheetSeeding()
setSheetSeeding(b) ==
  /\ pc = "idle"
  /\ isSheetSeedingEnabled' = b
  /\ lastError' = "none"
  /\ UNCHANGED <<isSimulationInitialized, configVars, timeVars, historyVars,
                 outputDataIsInitialized, currentFrame,
                 isCurrentFrameFinished, mesherThread, solverVars,
                 frameData, pc>>
  /\ UNCHANGED <<isSurfaceTensionEnabled, isDiffuseMaterialOutputEnabled,
                 isInvertedContactNormalsEnabled, mainStage, stageLog,
                 curvatureVars,
                 liveVars, mesherVars>>
  /\ UNCHANGED nonStageVars

\* enableDiffuseMaterialOutput() / disableDiffuseMaterialOutput()
setDiffuseMaterialOutput(b) ==
  /\ pc = "idle"
  /\ isDiffuseMaterialOutputEnabled' = b
  /\ lastError' = "none"
  /\ UNCHANGED <<isSimulationInitialized, configVars, timeVars, historyVars,
                 outputDataIsInitialized, currentFrame,
                 isCurrentFrameFinished, mesherThread, solverVars,
                 frameData, pc>>
  /\ UNCHANGED <<isSurfaceTensionEnabled, isSheetSeedingEnabled,
                 isInvertedContactNormalsEnabled, mainStage, stageLog,
                 curvatureVars,
                 liveVars, mesherVars>>
  /\ UNCHANGED nonStageVars

\* enableInvertedContactNormals() / disableInvertedContactNormals()
setInvertedContactNormals(b) ==
  /\ pc = "idle"
  /\ isInvertedContactNormalsEnabled' = b
  /\ lastError' = "none"
  /\ UNCHANGED <<isSimulationInitialized, configVars, timeVars, historyVars,
                 outputDataIsInitialized, currentFrame,
                 isCurrentFrameFinished, mesherThread, solverVars,
                 frameData, pc>>
  /\ UNCHANGED <<isSurfaceTensionEnabled, isSheetSeedingEnabled,
                 isDiffuseMaterialOutputEnabled, mainStage, stageLog,
                 curvatureVars,
                 liveVars, mesherVars>>
  /\ UNCHANGED nonStageVars

\* The frame driver with _stepFluid run stage by stage beside its workers.
StageNext ==
  \/ Initialize
  \/ \E n \in 1..StageSteps : setMaxTimeStepsPerFrame(n)
  \/ \E b \in BOOLEAN : setAsynchronousMeshing(b)
  \/ \E k \in {-1, 0, 1} : setSurfaceTension(k)
  \/ \E b \in BOOLEAN : setSheetSeeding(b)
  \/ \E b \in BOOLEAN : setDiffuseMaterialOutput(b)
  \/ \E b \in BOOLEAN : setInvertedContactNormals(b)
  \/ currentFrame < StageFrames /\ UpdateBegin(EpsDt)
  \/ \E n \in StepCountsFor(currentFrameDeltaTime) : StepBegin(n)
  \/ \E c \in BOOLEAN : StageDone(c, FALSE, NoSolve, NoSolve)
  \/ LaunchCurvature
  \/ CurvatureThreadFinish
  \/ JoinCurvature
  \/ LaunchOutputSurfaceMeshThread
  \/ OutputSurfaceMeshThreadStep
  \/ JoinOutputSurfaceMeshThread
  \/ UpdateReturn

SpecStage == Init /\ [][StageNext]_vars

\* ----------------------------------- the obstacles and the solid SDF
\* The entries of a vector.
Range(v) == {v[i] : i \in 1..Len(v)}

\* The search loops of the add calls, looking at the first entry only.
ContainsAtFront(v, x) == v # <<>> /\ v[1] = x

\* The search loops of addMeshObstacle and addMeshFluidSource: is x among
\* the entries of v.
Contains(v, x) == \E i \in 1..Len(v) : v[i] = x

\* The search loops of the remove calls: the first index x is found at, 0
\* if it is not found.
IndexOf(v, x) ==
  IF \E i \in 1..Len(v) : v[i] = x
  THEN CHOOSE i \in 1..Len(v) : v[i] = x /\ \A j \in 1..(i - 1) : v[j] # x
  ELSE 0

\* std::vector::erase of the entry at index i.
Erase(v, i) == [j \in 1..(Len(v) - 1) |-> IF j < i THEN v[j] ELSE v[j + 1]]

\* addMeshObstacle(o)
addMeshObstacle(o) ==
  /\ pc = "idle"
  /\ IF Contains(obstacles, o)
     THEN /\ lastError' = "runtime_error"
          /\ UNCHANGED <<obstacles, isSolidLevelSetUpToDate>>
     ELSE /\ lastError' = "none"
          /\ obstacles' = Append(obstacles, o)
          /\ isSolidLevelSetUpToDate' = FALSE
  /\ UNCHANGED <<objectStatus, isStaticSolidLevelSetPrecomputed,
                 isPrecomputedSolidLevelSetUpToDate, staticSolidSDF,
                 staticChangeReported, lastStaticCombine>>
  /\ UNCHANGED <<isSimulationInitialized, configVars, timeVars, historyVars,
                 outputDataIsInitialized, currentFrame,
                 isCurrentFrameFinished, mesherThread, solverVars,
                 frameData, pc, nonSolidVars>>

\* removeMeshObstacle(o)
removeMeshObstacle(o) ==
  /\ pc = "idle"
  /\ IF IndexOf(obstacles, o) = 0
     THEN /\ lastError' = "invalid_argument"
          /\ UNCHANGED <<obstacles, isSolidLevelSetUpToDate>>
     ELSE /\ lastError' = "none"
          /\ obstacles' = Erase(obstacles, IndexOf(obstacles, o))
          /\ isSolidLevelSetUpToDate' = FALSE
  /\ UNCHANGED <<objectStatus, isStaticSolidLevelSetPrecomputed,
                 isPrecomputedSolidLevelSetUpToDate, staticSolidSDF,
                 staticChangeReported, lastStaticCombine>>
  /\ UNCHANGED <<isSimulationInitialized, configVars, timeVars, historyVars,
                 outputDataIsInitialized, currentFrame,
                 isCurrentFrameFinished, mesherThread, solverVars,
                 frameData, pc, nonSolidVars>>

\* removeMeshObstacles()
removeMeshObstacles ==
  /\ pc = "idle"
  /\ lastError' = "none"
  /\ obstacles' = <<>>
  /\ isSolidLevelSetUpToDate' = FALSE
  /\ UNCHANGED <<objectStatus, isStaticSolidLevelSetPrecomputed,
                 isPrecomputedSolidLevelSetUpToDate, staticSolidSDF,
                 staticChangeReported, lastStaticCombine>>
  /\ UNCHANGED <<isSimulationInitialized, configVars, timeVars, historyVars,
                 outputDataIsInitialized, currentFrame,
                 isCurrentFrameFinished, mesherThread, solverVars,
                 frameData, pc, nonSolidVars>>

\* enableStaticSolidLevelSetPrecomputation() /
\* disableStaticSolidLevelSetPrecomputation()
setStaticSolidLevelSetPrecomputation(b) ==
  /\ pc = "idle"
  /\ lastError' = "none"
  /\ isStaticSolidLevelSetPrecomputed' = b
  /\ UNCHANGED <<obstacles, objectStatus, isPrecomputedSolidLevelSetUpToDate,
                 isSolidLevelSetUpToDate, staticSolidSDF,
                 staticChangeReported, lastStaticCombine>>
  /\ UNCHANGED <<isSimulationInitialized, configVars, timeVars, historyVars,
                 outputDataIsInitialized, currentFrame,
                 isCurrentFrameFinished, mesherThread, solverVars,
                 frameData, pc, nonSolidVars>>

\* The client changes an obstacle: its state (isStateChanged) or, for the
\* animated one, its mesh (isMeshChanged). The obstacle notes it in its
\* status until the simulator asks.
ObstacleChanges(o, state) ==
  /\ pc = "idle"
  /\ state \/ IsAnimated(o)
  /\ objectStatus' =
       [objectStatus EXCEPT ![o] =
          IF state THEN ObjectStatus(TRUE, @.isMeshChanged)
          ELSE ObjectStatus(@.isStateChanged, TRUE)]
  /\ UNCHANGED <<obstacles, isStaticSolidLevelSetPrecomputed,
                 isPrecomputedSolidLevelSetUpToDate, isSolidLevelSetUpToDate,
                 staticSolidSDF, staticChangeReported, lastStaticCombine>>
  /\ UNCHANGED <<frameVars, nonSolidVars>>

\* _addStaticObjectsToSDF: the obstacles of the registry that are not
\* animated.
StaticObstacles(v) == {o \in Range(v) : ~IsAnimated(o)}

\* _isSolidStateChanged
IsSolidStateChanged(status) ==
  \E o \in DOMAIN status :
    status[o].isStateChanged \/ (IsAnimated(o) /\ status[o].isMeshChanged)

\* _isStaticSolidStateChanged
IsStaticSolidStateChanged(status) ==
  \E o \in DOMAIN status : ~IsAnimated(o) /\ status[o].isStateChanged

\* _updatePrecomputedSolidLevelSet, with precomputation on: whether the
\* cached static SDF is taken as it is, given the status just collected.
PrecomputedUpToDate(status) ==
  IF IsStaticSolidStateChanged(status) THEN FALSE
  ELSE isPrecomputedSolidLevelSetUpToDate

\* _updateObstacleObjects, as far as the solid level set goes: the obstacle
\* stage of a substep. fluid tells what the simulation holds: "none" (no
\* fluid, no whitewater, nothing generating), "whitewater" (whitewater
\* particles only) or "fluid" (marker particles or a source of them).
UpdateObstacleObjects(fluid) ==
  /\ pc = "idle"
  /\ isSimulationInitialized
  /\ fluid # "none"
  /\ LET status   == [o \in Range(obstacles) |-> objectStatus[o]]
         upToDate == IF IsSolidStateChanged(status) THEN FALSE
                     ELSE isSolidLevelSetUpToDate
         reported == staticChangeReported \/ IsStaticSolidStateChanged(status)
     IN  /\ objectStatus' = [o \in Obstacles |->
                               IF o \in Range(obstacles) THEN StatusCleared
                               ELSE objectStatus[o]]
         /\ IF upToDate
            THEN /\ staticChangeReported' = reported
                 /\ UNCHANGED <<isSolidLevelSetUpToDate,
                                isPrecomputedSolidLevelSetUpToDate,
                                staticSolidSDF, lastStaticCombine>>
            ELSE IF fluid = "whitewater"
            THEN /\ isSolidLevelSetUpToDate' = FALSE
                 /\ staticChangeReported' = reported
                 /\ UNCHANGED <<isPrecomputedSolidLevelSetUpToDate,
                                staticSolidSDF, lastStaticCombine>>
            ELSE IF ~isStaticSolidLevelSetPrecomputed
            THEN /\ staticSolidSDF' = StaticSDF(FALSE, {})
                 /\ lastStaticCombine' = "direct"
                 /\ staticChangeReported' = reported
                 /\ isSolidLevelSetUpToDate' = TRUE
                 /\ UNCHANGED isPrecomputedSolidLevelSetUpToDate
            ELSE IF PrecomputedUpToDate(status)
            THEN /\ lastStaticCombine' = IF reported THEN "stale cache"
                                         ELSE "cache"
                 /\ staticChangeReported' = reported
                 /\ isSolidLevelSetUpToDate' = TRUE
                 /\ UNCHANGED <<isPrecomputedSolidLevelSetUpToDate,
                                staticSolidSDF>>
            ELSE /\ staticSolidSDF' =
                      StaticSDF(TRUE, StaticObstacles(obstacles))
                 /\ isPrecomputedSolidLevelSetUpToDate' = TRUE
                 /\ staticChangeReported' = FALSE
                 /\ lastStaticCombine' = "cache"
                 /\ isSolidLevelSetUpToDate' = TRUE
  /\ UNCHANGED <<obstacles, isStaticSolidLevelSetPrecomputed>>
  /\ UNCHANGED <<frameVars, nonSolidVars>>

SolidNext ==
  \/ Initialize
  \/ \E o \in Obstacles : addMeshObstacle(o)
  \/ \E o \in Obstacles : removeMeshObstacle(o)
  \/ removeMeshObstacles
  \/ \E b \in BOOLEAN : setStaticSolidLevelSetPrecomputation(b)
  \/ \E o \in Obstacles, state \in BOOLEAN : ObstacleChanges(o, state)
  \/ \E fluid \in {"whitewater", "fluid"} : UpdateObstacleObjects(fluid)

SpecSolid == Init /\ [][SolidNext]_vars

\* ------------------------------------------- the particle store at work
\* The frame driver's state that a call other than update() leaves alone.
driverVars == <<isSimulationInitialized, configVars, timeVars, historyVars,
                outputDataIsInitialized, currentFrame, isCurrentFrameFinished,
                mesherThread, solverVars, frameData, pc>>

\* enable...Attribute() / disable...Attribute() of a particle attribute
setAttribute(flag, b) ==
  /\ pc = "idle"
  /\ kernelLaunch = "none"
  /\ attributeFlags' = IF b THEN attributeFlags \cup {flag}
                       ELSE attributeFlags \ {flag}
  /\ lastError' = "none"
  /\ UNCHANGED <<velocityTransferMethod, markerParticleLoadQueue,
                 particleSystem, lastStoreOp, loadedBatches>>
  /\ UNCHANGED <<driverVars, stageVars, solidVars, kernelVars, sourceVars,
                 bindingVars>>

\* setVelocityTransferMethodFLIP() / setVelocityTransferMethodAPIC()
setVelocityTransferMethod(method) ==
  /\ pc = "idle"
  /\ kernelLaunch = "none"
  /\ velocityTransferMethod' = method
  /\ lastError' = "none"
  /\ UNCHANGED <<attributeFlags, markerParticleLoadQueue, particleSystem,
                 lastStoreOp, loadedBatches>>
  /\ UNCHANGED <<driverVars, stageVars, solidVars, kernelVars, sourceVars,
                 bindingVars>>

\* loadMarkerParticleData(data) and its companions, P the positions of
\* the particles of data
loadMarkerParticleData(P, data) ==
  /\ pc = "idle"
  /\ kernelLaunch = "none"
  /\ Len(markerParticleLoadQueue) < MaxLoads
  /\ markerParticleLoadQueue' =
       IF P = {} THEN markerParticleLoadQueue
       ELSE Append(markerParticleLoadQueue, LoadData(P, data))
  /\ lastError' = "none"
  /\ UNCHANGED <<attributeFlags, velocityTransferMethod, particleSystem,
                 lastStoreOp, loadedBatches>>
  /\ UNCHANGED <<driverVars, stageVars, solidVars, kernelVars, sourceVars,
                 bindingVars>>

\* A stage of a substep that fetches the named columns of the store and
\* then leaves it as after: fetching a column the store never got fails
\* before anything is pushed.
StoreStage(name, fetched, after) ==
  /\ pc = "idle"
  /\ kernelLaunch = "none"
  /\ isSimulationInitialized
  /\ after.size <= MaxParticles
  /\ IF fetched \subseteq DOMAIN particleSystem.columns
     THEN /\ particleSystem' = after
          /\ lastStoreOp' = name
          /\ lastError' = "none"
     ELSE /\ lastError' = "missing attribute"
          /\ UNCHANGED <<particleSystem, lastStoreOp>>
  /\ UNCHANGED <<attributeFlags, velocityTransferMethod,
                 markerParticleLoadQueue, loadedBatches>>
  /\ UNCHANGED <<driverVars, stageVars, solidVars, kernelVars, sourceVars,
                 bindingVars>>

\* _addMarkerParticles: an inflow or a fluid object emits n particles.
AddMarkerParticles(n) ==
  StoreStage("_addMarkerParticles", AddedColumns(attributeFlags),
             AddedMarkerParticles(particleSystem, attributeFlags, n))

\* _updateSheetSeeding, n sheet particles kept; with sheet seeding off it
\* returns at once.
UpdateSheetSeeding(n) ==
  /\ isSheetSeedingEnabled
  /\ StoreStage("_updateSheetSeeding", SheetFetchedColumns(attributeFlags),
                SheetSeededParticles(particleSystem, attributeFlags, n))

\* _removeMarkerParticles, k particles marked for removal.
RemoveMarkerParticles(k) ==
  /\ k <= particleSystem.size
  /\ StoreStage("_removeMarkerParticles", {"POSITION", "VELOCITY"},
                RemoveParticles(particleSystem, k))

\* The particle store under loading, emission, re-seeding and removal, with
\* the attributes switched at any time.
StoreNext ==
  \/ \E flag \in AttributeFlags, b \in BOOLEAN : setAttribute(flag, b)
  \/ \E method \in {"FLIP", "APIC"} : setVelocityTransferMethod(method)
  \/ \E b \in BOOLEAN : setSheetSeeding(b)
  \/ \E P \in StoreLoadSets, data \in LoadDataSets :
       /\ ~isSimulationInitialized
       /\ Len(markerParticleLoadQueue) < StoreLoads
       /\ loadMarkerParticleData(P, data)
  \/ Initialize
  \/ \E n \in 1..2 : AddMarkerParticles(n)
  \/ \E n \in 1..2 : UpdateSheetSeeding(n)
  \/ \E k \in 1..2 : RemoveMarkerParticles(k)

SpecStore == Init /\ [][StoreNext]_vars

\* The load calls and initialize(): every attribute setting, every queue of
\* batches.
LoadNext ==
  \/ \E flag \in AttributeFlags, b \in BOOLEAN : setAttribute(flag, b)
  \/ \E method \in {"FLIP", "APIC"} : setVelocityTransferMethod(method)
  \/ \E P \in StoreLoadSets, data \in LoadDataSets :
       ~isSimulationInitialized /\ loadMarkerParticleData(P, data)
  \/ Initialize

SpecLoad == Init /\ [][LoadNext]_vars

\* ---------------------------------------------------- kernels at work
\* setMaxThreadCount(n)
setMaxThreadCount(n) ==
  /\ pc = "idle"
  /\ kernelLaunch = "none"
  /\ IF n < 1
     THEN /\ lastError' = "domain_error"
          /\ UNCHANGED maxThreadCount
     ELSE /\ lastError' = "none"
          /\ maxThreadCount' = n
  /\ UNCHANGED <<kernelLaunch, kernelIntervals, kernelPos, kernelNear,
                 kernelWrites, nearSolidGrid>>
  /\ UNCHANGED <<driverVars, stageVars, solidVars, storeVars, sourceVars,
                 bindingVars>>

\* The launcher starts numthreads threads over the range 0..rangeEnd.
LaunchKernel(name, rangeEnd) ==
  LET numthreads == Min(maxThreadCount, rangeEnd)
      intervals  == SplitRangeIntoIntervals(0, rangeEnd, numthreads)
  IN  /\ pc = "idle"
      /\ isSimulationInitialized
      /\ kernelLaunch = "none"
      /\ kernelLaunch' = name
      /\ kernelIntervals' = intervals
      /\ kernelPos' = [t \in 1..numthreads |-> intervals[t]]
      /\ kernelWrites' = {}

\* A thread of the launch is at an index of its loop.
ThreadAt(name, t) ==
  /\ kernelLaunch = name
  /\ t \in DOMAIN kernelPos
  /\ kernelPos[t] \in ThreadRange(kernelIntervals[t], kernelIntervals[t + 1])

\* The launcher's joins return: every thread has left its loop.
JoinKernel(name) ==
  /\ kernelLaunch = name
  /\ \A t \in DOMAIN kernelPos : ~ThreadAt(name, t)
  /\ kernelLaunch' = "none"
  /\ kernelIntervals' = <<>>
  /\ kernelPos' = <<>>
  /\ kernelNear' = {}
  /\ kernelWrites' = {}

\* _updateNearSolidGrid up to the launch; near holds the cells of the
\* simulation grid within maxd of the solid.
UpdateNearSolidGrid(near) ==
  /\ LaunchKernel("_updateNearSolidGrid", isize * jsize * ksize)
  /\ kernelNear' = near
  /\ nearSolidGrid' = {}
  /\ UNCHANGED <<maxThreadCount, frameVars, stageVars, solidVars, storeVars,
                 sourceVars, bindingVars>>

\* _initializeNearSolidGridThread: one pass of thread t's loop.
InitializeNearSolidGridThread(t) ==
  /\ ThreadAt("_updateNearSolidGrid", t)
  /\ LET idx  == kernelPos[t]
         cell == NearSolidCell(GetUnflattenedIndex(idx))
     IN  /\ kernelPos' = [kernelPos EXCEPT ![t] = idx + 1]
         /\ IF idx \in kernelNear
            THEN /\ nearSolidGrid' = nearSolidGrid \cup {cell}
                 /\ kernelWrites' = kernelWrites \cup
                      {KernelWrite(t, "_nearSolidGrid", cell)}
            ELSE UNCHANGED <<nearSolidGrid, kernelWrites>>
  /\ UNCHANGED <<maxThreadCount, kernelLaunch, kernelIntervals, kernelNear>>
  /\ UNCHANGED <<frameVars, stageVars, solidVars, storeVars, sourceVars,
                 bindingVars>>

\* _updateNearSolidGrid from the joins on: the grid is feathered.
UpdateNearSolidGridJoin(cfl) ==
  /\ JoinKernel("_updateNearSolidGrid")
  /\ nearSolidGrid' =
       FeatherLayers(nearSolidGrid, CeilDiv(cfl, nearSolidGridCellSizeFactor))
  /\ UNCHANGED <<maxThreadCount, frameVars, stageVars, solidVars, storeVars,
                 sourceVars, bindingVars>>

\* _updateMarkerParticleVelocitiesThread up to the launch
UpdateMarkerParticleVelocitiesThread ==
  /\ LaunchKernel("_updateMarkerParticleVelocitiesThread",
                  particleSystem.size)
  /\ UNCHANGED <<maxThreadCount, kernelNear, nearSolidGrid>>
  /\ UNCHANGED <<frameVars, stageVars, solidVars, storeVars, sourceVars,
                 bindingVars>>

\* _updatePICFLIPMarkerParticleVelocitiesThread and
\* _updatePICAPICMarkerParticleVelocitiesThread: one pass of thread t's
\* loop, which assigns entry i of the velocity and of the affine columns.
UpdateMarkerParticleVelocitiesThreadPass(t) ==
  /\ ThreadAt("_updateMarkerParticleVelocitiesThread", t)
  /\ LET i == kernelPos[t]
     IN  /\ kernelPos' = [kernelPos EXCEPT ![t] = i + 1]
         /\ kernelWrites' = kernelWrites \cup
              {KernelWrite(t, c, i) :
                 c \in VelocityKernelColumns(velocityTransferMethod)}
  /\ UNCHANGED <<maxThreadCount, kernelLaunch, kernelIntervals, kernelNear,
                 nearSolidGrid>>
  /\ UNCHANGED <<frameVars, stageVars, solidVars, storeVars, sourceVars,
                 bindingVars>>

\* _updateMarkerParticleVelocities from the joins on; the velocities the
\* main thread then constrains keep every column's length.
UpdateMarkerParticleVelocitiesJoin ==
  /\ JoinKernel("_updateMarkerParticleVelocitiesThread")
  /\ UNCHANGED <<maxThreadCount, nearSolidGrid>>
  /\ UNCHANGED <<frameVars, stageVars, solidVars, storeVars, sourceVars,
                 bindingVars>>

\* Kernel launches over the grid and over the particles of a store that
\* emission and removal resize between the launches.
KernelNext ==
  \/ \E method \in {"FLIP", "APIC"} :
       ~isSimulationInitialized /\ setVelocityTransferMethod(method)
  \/ \E n \in 0..MaxThreads : setMaxThreadCount(n)
  \/ Initialize
  \/ \E n \in 1..2 : AddMarkerParticles(n)
  \/ \E k \in 1..2 : RemoveMarkerParticles(k)
  \/ \E near \in SUBSET (0..(isize * jsize * ksize - 1)) :
       UpdateNearSolidGrid(near)
  \/ \E t \in 1..MaxThreads : InitializeNearSolidGridThread(t)
  \/ \E cfl \in CFLConditionNumbers : UpdateNearSolidGridJoin(cfl)
  \/ UpdateMarkerParticleVelocitiesThread
  \/ \E t \in 1..MaxThreads : UpdateMarkerParticleVelocitiesThreadPass(t)
  \/ UpdateMarkerParticleVelocitiesJoin

SpecKernel == Init /\ [][KernelNext]_vars

\* ----------------------------------- fluid sources and particle positions
\* _getBoundaryAABB: the grid less BoundaryWidth cells on either side (the
\* eps of the code is below the resolution of the positions).
BoundaryMin == 2 * BoundaryWidth
BoundaryMax == 2 * (GridCells - BoundaryWidth) - 1

\* _solidSDF of the domain object: solid outside the boundary AABB.
IsSolidPoint(p) == p < BoundaryMin \/ p > BoundaryMax

\* _removeMarkerParticles, _updateOutflowBoundary: beyond an open side less
\* the buffer of _openBoundaryWidth cells.
IsBeyondOpenBoundary(p, xneg, xpos, width) ==
  \/ xneg /\ p < BoundaryMin + 2 * width
  \/ xpos /\ p > BoundaryMax - 2 * width

\* _resolveCollision: a position that left the grid is put back to the
\* nearest point inside the boundary.
ResolveCollision(p) ==
  IF IsGridIndexInRange(PositionToGridIndex(p)) THEN p
  ELSE IF p < 0 THEN BoundaryMin ELSE BoundaryMax

\* _removeMarkerParticles: the particles that stay, those outside solid and
\* within the open sides. (The removals by lifetime, cell count and speed
\* take particles away as well and put none anywhere.)
KeptMarkerParticles(P, xneg, xpos, width) ==
  {p \in P : ~IsSolidPoint(p) /\ ~IsBeyondOpenBoundary(p, xneg, xpos, width)}

\* _advanceMarkerParticles: every particle moves by shift, collisions are
\* resolved and _removeMarkerParticles runs; nothing without fluid.
AdvanceMarkerParticles(P, shift, xneg, xpos, width) ==
  IF P = {} THEN P
  ELSE KeptMarkerParticles({ResolveCollision(p + shift) : p \in P},
                           xneg, xpos, width)

\* _updateOutflowBoundary without the side of greater x.
UpdateOutflowBoundaryXNegOnly(P, xneg, xpos, width) ==
  IF ~xneg /\ ~xpos THEN P
  ELSE {p \in P : ~IsBeyondOpenBoundary(p, xneg, FALSE, width)}

\* _updateOutflowBoundary
UpdateOutflowBoundary(P, xneg, xpos, width) ==
  IF ~xneg /\ ~xpos THEN P
  ELSE {p \in P : ~IsBeyondOpenBoundary(p, xneg, xpos, width)}

\* MeshFluidSource::getCells: the cells whose centre is inside the SDF of
\* the source, inside being the positions with a negative distance.
GetCells(inside) ==
  {c \in 0..(GridCells - 1) : {2 * c, 2 * c + 1} \subseteq inside}

\* A fluid source: inflow or outflow, with the region its SDF is negative
\* in.
MeshFluidSource(id, inflow, enabled, fluidOutflow, inversed, priority, inside) ==
  [id |-> id, isInflow |-> inflow, isEnabled |-> enabled,
   isFluidOutflowEnabled |-> fluidOutflow,
   isDiffuseOutflowEnabled |-> ~inflow /\ ~fluidOutflow,
   isOutflowInversed |-> inversed, priority |-> priority,
   substepEmissions |-> 1, inside |-> inside]

\* The sources the runs add: two inflows over the first cell within the
\* boundary; an outflow over that cell and half of the next one; an outflow
\* of whitewater only; an inversed outflow; a disabled outflow.
FluidSources ==
  { MeshFluidSource(1, TRUE, TRUE, FALSE, FALSE, 1,
                    {BoundaryMin, BoundaryMin + 1}),
    MeshFluidSource(2, TRUE, TRUE, FALSE, FALSE, 2,
                    {BoundaryMin, BoundaryMin + 1}),
    MeshFluidSource(3, FALSE, TRUE, TRUE, FALSE, 1,
                    {BoundaryMin, BoundaryMin + 1, BoundaryMin + 2}),
    MeshFluidSource(4, FALSE, TRUE, FALSE, FALSE, 2,
                    {BoundaryMin + 2, BoundaryMin + 3}),
    MeshFluidSource(5, FALSE, TRUE, TRUE, TRUE, 3,
                    {BoundaryMin, BoundaryMin + 1}),
    MeshFluidSource(6, FALSE, FALSE, TRUE, FALSE, 3,
                    {BoundaryMin, BoundaryMin + 1}) }

\* A fluid mesh object of addMeshFluid, over the second cell within the
\* boundary.
FluidMeshObject(priority) ==
  [priority |-> priority, inside |-> {BoundaryMin + 2, BoundaryMin + 3}]

\* _getMarkerParticleJitter: how many sub-cells a jittered candidate can
\* move from the centre of its own, the jitter being a quarter cell times
\* the factor (less eps).
JitterReach(factor) == factor \div 2

\* _addNewFluidCellsThread: is the candidate jittered -- always with
\* surface jitter on, else only more than a cell deep in the source.
IsJittered(p, inside, surfaceJitter) ==
  surfaceJitter \/ (p - 2)..(p + 2) \subseteq inside

\* _addNewFluidCellsThread: the position a candidate is emitted at.
EmittedAt(p, inside, surfaceJitter, draw) ==
  IF IsJittered(p, inside, surfaceJitter) THEN p + draw ELSE p

\* _addNewFluidCells: the candidates of the cells, lowest first, each kept
\* if it is inside the source, lands outside solid and in a sub-cell the
\* mask grid does not hold yet; the result is the set of new particles.
RECURSIVE AddNewFluidCells(_, _, _, _, _, _)
AddNewFluidCells(candidates, inside, surfaceJitter, draw, maskgrid, added) ==
  IF candidates = {} THEN added
  ELSE LET c == CHOOSE x \in candidates : \A y \in candidates : x <= y
           p == EmittedAt(c, inside, surfaceJitter, draw)
           take == c \in inside /\ ~IsSolidPoint(p) /\ p \notin maskgrid
       IN  AddNewFluidCells(candidates \ {c}, inside, surfaceJitter, draw,
                            IF take THEN maskgrid \cup {p} ELSE maskgrid,
                            IF take THEN added \cup {p} ELSE added)

\* The sub-cell candidates of a region: the two sub-cells of each of its
\* cells.
SubCellCandidates(inside) ==
  {p \in GridSubCells : PositionToGridIndex(p) \in GetCells(inside)}

\* One entry of the record of what _updateFluidObjects processed.
Processed(kind, id, priority, added) ==
  [kind |-> kind, id |-> id, priority |-> priority, added |-> added]

\* The orders std::sort can leave a vector in: every arrangement of its
\* entries by descending priority (operator> of FluidMeshObject and
\* compareMeshFluidSourcePointerDescending compare the priorities).
SortedDescending(v) ==
  {w \in [1..Len(v) -> {v[i] : i \in 1..Len(v)}] :
     /\ \A i \in 1..Len(v) : \E j \in 1..Len(v) : w[j] = v[i]
     /\ \A i, j \in 1..Len(v) : i < j => w[i].priority >= w[j].priority}

\* _updateAddedFluidMeshObjectQueue from object i of the sorted queue on:
\* st holds the positions, the mask grid and the record so far.
RECURSIVE AddFluidMeshObjects(_, _, _, _, _)
AddFluidMeshObjects(queue, i, st, surfaceJitter, draws) ==
  IF i > Len(queue) THEN st
  ELSE LET added == AddNewFluidCells(SubCellCandidates(queue[i].inside),
                      queue[i].inside, surfaceJitter,
                      draws[Len(st.log) + 1], st.maskgrid, {})
       IN  AddFluidMeshObjects(queue, i + 1,
             [positions |-> st.positions \cup PositionsInGrid(added),
              maskgrid |-> st.maskgrid \cup added,
              log |-> Append(st.log, Processed("object", 0,
                                               queue[i].priority, added))],
             surfaceJitter, draws)

\* _updateAddedFluidMeshObjectQueue
UpdateAddedFluidMeshObjectQueue(sorted, P, log, surfaceJitter, draws) ==
  IF sorted = <<>> THEN [positions |-> P, maskgrid |-> P, log |-> log]
  ELSE AddFluidMeshObjects(sorted, 1,
         [positions |-> P, maskgrid |-> P, log |-> log],
         surfaceJitter, draws)

\* _updateInflowMeshFluidSource: the number of emission calls of the
\* source in substep k.
EmissionCalls(source, k) ==
  IF source.substepEmissions = 0 THEN (IF k = 0 THEN 1 ELSE 0)
  ELSE source.substepEmissions

\* _updateInflowMeshFluidSources, the loop from source i on; an enabled
\* inflow emits into the candidates of its cells.
RECURSIVE UpdateInflowMeshFluidSource(_, _, _, _, _, _)
UpdateInflowMeshFluidSource(sources, i, st, k, surfaceJitter, draws) ==
  IF i > Len(sources) THEN st
  ELSE LET source == sources[i]
           emits == /\ source.isInflow
                    /\ source.isEnabled
                    /\ EmissionCalls(source, k) > 0
           added == AddNewFluidCells(SubCellCandidates(source.inside),
                      source.inside, surfaceJitter,
                      draws[Len(st.log) + 1], st.maskgrid, {})
       IN  UpdateInflowMeshFluidSource(sources, i + 1,
             IF emits
             THEN [positions |-> st.positions \cup PositionsInGrid(added),
                   maskgrid |-> st.maskgrid \cup added,
                   log |-> Append(st.log, Processed("inflow", source.id,
                                                    source.priority, added))]
             ELSE st,
             k, surfaceJitter, draws)

IsInflowEnabled(sources) ==
  \E i \in 1..Len(sources) : sources[i].isInflow /\ sources[i].isEnabled

IsOutflowEnabled(sources) ==
  \E i \in 1..Len(sources) : ~sources[i].isInflow /\ sources[i].isEnabled

\* _updateInflowMeshFluidSources: with an enabled inflow the vector is
\* sorted (sorted is what std::sort made of it) and the mask grid is built
\* from the particles; the result carries the vector as it is left.
UpdateInflowMeshFluidSources(sources, sorted, P, log, k, surfaceJitter, draws) ==
  IF ~IsInflowEnabled(sources)
  THEN [sources |-> sources, positions |-> P, log |-> log]
  ELSE LET st == UpdateInflowMeshFluidSource(sorted, 1,
                   [positions |-> P, maskgrid |-> P, log |-> log],
                   k, surfaceJitter, draws)
       IN  [sources |-> sorted, positions |-> st.positions, log |-> st.log]

\* _updateOutflowMeshFluidSource: the particles a source removes.
IsRemovedByOutflow(p, source) ==
  LET isOutflowCell ==
        IF source.isOutflowInversed
        THEN PositionToGridIndex(p) \notin GetCells(source.inside)
        ELSE PositionToGridIndex(p) \in GetCells(source.inside)
  IN  /\ isOutflowCell
      /\ IF source.isOutflowInversed THEN p \notin source.inside
         ELSE p \in source.inside

\* _updateOutflowMeshFluidSource: the particles left by a source that is
\* processed.
RemovedByOutflow(P, source) ==
  IF source.isFluidOutflowEnabled
  THEN {p \in P : ~IsRemovedByOutflow(p, source)}
  ELSE P

\* _updateOutflowMeshFluidSource: is the source processed at all.
IsOutflowProcessed(source) ==
  /\ ~source.isInflow
  /\ source.isEnabled
  /\ source.isFluidOutflowEnabled \/ source.isDiffuseOutflowEnabled

\* _updateOutflowMeshFluidSources, the loop from source i on.
RECURSIVE UpdateOutflowMeshFluidSource(_, _, _)
UpdateOutflowMeshFluidSource(sources, i, st) ==
  IF i > Len(sources) THEN st
  ELSE LET source == sources[i]
       IN  UpdateOutflowMeshFluidSource(sources, i + 1,
             IF IsOutflowProcessed(source)
             THEN [positions |-> RemovedByOutflow(st.positions, source),
                   log |-> Append(st.log, Processed("outflow", source.id,
                                                    source.priority, {}))]
             ELSE st)

\* _updateOutflowMeshFluidSources
UpdateOutflowMeshFluidSources(sources, P, log) ==
  IF ~IsOutflowEnabled(sources) THEN [positions |-> P, log |-> log]
  ELSE UpdateOutflowMeshFluidSource(sources, 1,
                                    [positions |-> P, log |-> log])

\* _updateMeshFluidSources with the outflows ahead of the inflows.
UpdateMeshFluidSourcesOutflowFirst(sources, sorted, P, log, k, surfaceJitter, draws, xneg, xpos, width) ==
  LET out == UpdateOutflowMeshFluidSources(sources, P, log)
      in == UpdateInflowMeshFluidSources(sources, sorted, out.positions,
                                         out.log, k, surfaceJitter, draws)
  IN  [sources |-> in.sources,
       positions |-> UpdateOutflowBoundary(in.positions, xneg, xpos, width),
       log |-> in.log]

\* _updateMeshFluidSources: the inflows, the outflows, the open sides.
UpdateMeshFluidSources(sources, sorted, P, log, k, surfaceJitter, draws, xneg, xpos, width) ==
  LET in == UpdateInflowMeshFluidSources(sources, sorted, P, log, k,
                                         surfaceJitter, draws)
      out == UpdateOutflowMeshFluidSources(in.sources, in.positions, in.log)
  IN  [sources |-> in.sources,
       positions |-> UpdateOutflowBoundary(out.positions, xneg, xpos, width),
       log |-> out.log]

\* _updateFluidObjects: the queued fluid objects, then the sources.
UpdateFluidObjects(sources, sorted, queue, P, k, surfaceJitter, draws, xneg, xpos, width) ==
  LET objects == UpdateAddedFluidMeshObjectQueue(queue, P, <<>>,
                                                 surfaceJitter, draws)
  IN  UpdateMeshFluidSources(sources, sorted, objects.positions,
                             objects.log, k, surfaceJitter, draws,
                             xneg, xpos, width)

\* _isFluidGeneratingThisFrame
IsFluidGeneratingThisFrame ==
  IsInflowEnabled(meshFluidSources) \/ addedFluidMeshObjectQueue # <<>>

\* What the operations on sources and positions leave alone.
nonSourceVars == <<driverVars, stageVars, solidVars, storeVars, kernelVars,
                   bindingVars>>

\* MeshFluidSource::getID of the entries of the vector of sources.
SourceIDs(sources) == [i \in 1..Len(sources) |-> sources[i].id]

\* addMeshFluidSource(source): a source whose id is in the vector already
\* is refused.
addMeshFluidSource(source) ==
  /\ pc = "idle"
  /\ IF Contains(SourceIDs(meshFluidSources), source.id)
     THEN /\ lastError' = "runtime_error"
          /\ UNCHANGED meshFluidSources
     ELSE /\ Len(meshFluidSources) < MaxSources
          /\ lastError' = "none"
          /\ meshFluidSources' = Append(meshFluidSources, source)
  /\ UNCHANGED <<addedFluidMeshObjectQueue, positions, boundaryVars,
                 jitterVars, sourceLog>>
  /\ UNCHANGED nonSourceVars

\* removeMeshFluidSource(source): the first entry of the id is erased; a
\* source that is not found is an invalid argument.
removeMeshFluidSource(source) ==
  /\ pc = "idle"
  /\ IF IndexOf(SourceIDs(meshFluidSources), source.id) = 0
     THEN /\ lastError' = "invalid_argument"
          /\ UNCHANGED meshFluidSources
     ELSE /\ lastError' = "none"
          /\ meshFluidSources' =
               Erase(meshFluidSources,
                     IndexOf(SourceIDs(meshFluidSources), source.id))
  /\ UNCHANGED <<addedFluidMeshObjectQueue, positions, boundaryVars,
                 jitterVars, sourceLog>>
  /\ UNCHANGED nonSourceVars

\* removeMeshFluidSources()
removeMeshFluidSources ==
  /\ pc = "idle"
  /\ meshFluidSources' = <<>>
  /\ lastError' = "none"
  /\ UNCHANGED <<addedFluidMeshObjectQueue, positions, boundaryVars,
                 jitterVars, sourceLog>>
  /\ UNCHANGED nonSourceVars

\* The registries at work: every sequence of add and remove calls on the
\* obstacles and on the fluid sources.
RegistryNext ==
  \/ \E o \in Obstacles : addMeshObstacle(o)
  \/ \E o \in Obstacles : removeMeshObstacle(o)
  \/ removeMeshObstacles
  \/ \E source \in FluidSources : addMeshFluidSource(source)
  \/ \E source \in FluidSources : removeMeshFluidSource(source)
  \/ removeMeshFluidSources

SpecRegistry == Init /\ [][RegistryNext]_vars

\* addMeshFluid(fluid)
addMeshFluid(object) ==
  /\ pc = "idle"
  /\ addedFluidMeshObjectQueue' = Append(addedFluidMeshObjectQueue, object)
  /\ lastError' = "none"
  /\ UNCHANGED <<meshFluidSources, positions, boundaryVars, jitterVars,
                 sourceLog>>
  /\ UNCHANGED nonSourceVars

\* The validation of setFluidBoundaryCollisions, which accepts anything.
IsInvalidBoundaryCollisionsNever(active) == FALSE

\* The validation of setFluidBoundaryCollisions: one flag for each of the
\* six sides.
IsInvalidBoundaryCollisions(active) == Len(active) # 6

\* The vector of setFluidBoundaryCollisions with the two sides of the x
\* axis as given and the other four sides closed.
BoundaryCollisions(xnegActive, xposActive) ==
  <<xnegActive, xposActive, TRUE, TRUE, TRUE, TRUE>>

\* setFluidBoundaryCollisions(active): a side is open where collisions
\* are not active.
setFluidBoundaryCollisions(active) ==
  /\ pc = "idle"
  /\ IF IsInvalidBoundaryCollisions(active)
     THEN /\ lastError' = "domain_error"
          /\ UNCHANGED <<openBoundaryXNeg, openBoundaryXPos>>
     ELSE /\ lastError' = "none"
          /\ openBoundaryXNeg' = ~active[1]
          /\ openBoundaryXPos' = ~active[2]
  /\ UNCHANGED <<meshFluidSources, addedFluidMeshObjectQueue, positions,
                 openBoundaryWidth, jitterVars, sourceLog>>
  /\ UNCHANGED nonSourceVars

\* setFluidOpenBoundaryWidth(width)
setFluidOpenBoundaryWidth(width) ==
  /\ pc = "idle"
  /\ IF width < 1
     THEN /\ lastError' = "domain_error"
          /\ UNCHANGED openBoundaryWidth
     ELSE /\ lastError' = "none"
          /\ openBoundaryWidth' = width
  /\ UNCHANGED <<meshFluidSources, addedFluidMeshObjectQueue, positions,
                 openBoundaryXNeg, openBoundaryXPos, jitterVars, sourceLog>>
  /\ UNCHANGED nonSourceVars

\* setMarkerParticleJitterFactor(jit)
setMarkerParticleJitterFactor(jit) ==
  /\ pc = "idle"
  /\ IF jit < 0
     THEN /\ lastError' = "domain_error"
          /\ UNCHANGED markerParticleJitterFactor
     ELSE /\ lastError' = "none"
          /\ markerParticleJitterFactor' = jit
  /\ UNCHANGED <<meshFluidSources, addedFluidMeshObjectQueue, positions,
                 boundaryVars, isJitterSurfaceMarkerParticlesEnabled,
                 sourceLog>>
  /\ UNCHANGED nonSourceVars

\* enableJitterSurfaceMarkerParticles, disableJitterSurfaceMarkerParticles
setJitterSurfaceMarkerParticles(b) ==
  /\ pc = "idle"
  /\ isJitterSurfaceMarkerParticlesEnabled' = b
  /\ lastError' = "none"
  /\ UNCHANGED <<meshFluidSources, addedFluidMeshObjectQueue, positions,
                 boundaryVars, markerParticleJitterFactor, sourceLog>>
  /\ UNCHANGED nonSourceVars

\* The emission calls of a substep: one for each queued fluid object and
\* each enabled inflow.
EmissionCallCount(sources, queue) ==
  Len(queue) + Cardinality({i \in 1..Len(sources) :
                             sources[i].isInflow /\ sources[i].isEnabled})

\* The draws of the jitter, one for each emission call of a substep.
JitterDraws(factor, calls) ==
  [1..calls -> (0 - JitterReach(factor))..JitterReach(factor)]

\* _advanceMarkerParticles and _updateFluidObjects of a substep of a frame
\* that is not skipped: every particle moves by shift, the queue of fluid
\* objects is sorted to sortedQueue and emptied, the sources to
\* sortedSources, and draws are the jitters of the emission calls.
AdvanceAndUpdateFluidObjects(shift, sortedQueue, sortedSources, draws) ==
  /\ pc = "idle"
  /\ isSimulationInitialized
  /\ \E after \in {UpdateFluidObjects(meshFluidSources, sortedSources,
                      sortedQueue,
                      AdvanceMarkerParticles(positions, shift,
                        openBoundaryXNeg, openBoundaryXPos,
                        openBoundaryWidth),
                      currentFrameTimeStepNumber,
                      isJitterSurfaceMarkerParticlesEnabled, draws,
                      openBoundaryXNeg, openBoundaryXPos,
                      openBoundaryWidth)} :
       /\ positions' = after.positions
       /\ meshFluidSources' = after.sources
       /\ sourceLog' = after.log
  /\ addedFluidMeshObjectQueue' = <<>>
  /\ lastError' = "none"
  /\ UNCHANGED <<boundaryVars, jitterVars>>
  /\ UNCHANGED nonSourceVars

\* The fluid sources at work: every vector of sources, every jitter
\* setting, every motion of the particles.
SourceNext ==
  \/ \E source \in FluidSources :
       ~isSimulationInitialized /\ addMeshFluidSource(source)
  \/ \E jit \in JitterFactors :
       ~isSimulationInitialized /\ setMarkerParticleJitterFactor(jit)
  \/ \E b \in BOOLEAN :
       ~isSimulationInitialized /\ setJitterSurfaceMarkerParticles(b)
  \/ Initialize
  \/ \E shift \in {0 - 1, 0, 1},
        sortedSources \in SortedDescending(meshFluidSources),
        draws \in JitterDraws(markerParticleJitterFactor,
                  EmissionCallCount(meshFluidSources, <<>>)) :
       AdvanceAndUpdateFluidObjects(shift, <<>>, sortedSources, draws)

SpecSource == Init /\ [][SourceNext]_vars

\* The loads of the boundary runs: a particle in the solid border and one
\* outside the grid, or one within the boundary.
BoundaryLoadSets == {{BoundaryMin - 1, 0 - 1}, {BoundaryMin + 1}}

\* The domain boundary at work: loaded particles, a fluid object, an
\* inflow, every setting of the open sides, every motion of the particles.
BoundaryNext ==
  \/ \E P \in BoundaryLoadSets :
       /\ ~isSimulationInitialized
       /\ Len(markerParticleLoadQueue) < StoreLoads
       /\ loadMarkerParticleData(P, {})
  \/ /\ ~isSimulationInitialized
     /\ addedFluidMeshObjectQueue = <<>>
     /\ addMeshFluid(FluidMeshObject(1))
  \/ /\ ~isSimulationInitialized
     /\ meshFluidSources = <<>>
     /\ addMeshFluidSource(MeshFluidSource(1, TRUE, TRUE, FALSE, FALSE, 1,
                                           {BoundaryMin, BoundaryMin + 1}))
  \/ \E a, b \in BOOLEAN :
       ~isSimulationInitialized
       /\ setFluidBoundaryCollisions(BoundaryCollisions(a, b))
  \/ \E width \in 0..2 :
       ~isSimulationInitialized /\ setFluidOpenBoundaryWidth(width)
  \/ Initialize
  \/ \E shift \in {0 - 1, 0, 1} :
       AdvanceAndUpdateFluidObjects(shift, addedFluidMeshObjectQueue,
         meshFluidSources,
         [i \in 1..EmissionCallCount(meshFluidSources,
                                     addedFluidMeshObjectQueue) |-> 0])

SpecBoundary == Init /\ [][BoundaryNext]_vars

\* The vectors handed to setFluidBoundaryCollisions: of six flags, and one
\* of five.
BoundaryCollisionArgs ==
  {BoundaryCollisions(a, b) : a, b \in BOOLEAN} \cup {<<FALSE, FALSE, TRUE, TRUE, TRUE>>}

\* The setters that validate at work, with arguments within and without
\* what they accept.
SettersNext ==
  \/ \E n \in StepSettings : setMinTimeStepsPerFrame(n)
  \/ \E n \in StepSettings : setMaxTimeStepsPerFrame(n)
  \/ \E n \in 0..MaxThreads : setMaxThreadCount(n)
  \/ \E active \in BoundaryCollisionArgs : setFluidBoundaryCollisions(active)
  \/ \E width \in 0..2 : setFluidOpenBoundaryWidth(width)
  \/ \E jit \in JitterFactors \cup {0 - 1} : setMarkerParticleJitterFactor(jit)

SpecSetters == Init /\ [][SettersNext]_vars

\* ---------------------------------------------------------------- claims
\* C1: with asynchronous meshing, the output worker launched on the first
\* substep of a frame is joined on the last one, so whenever update(dt) has
\* returned no output worker is still running.
C1_NoWorkerAfterUpdate ==
  pc = "idle" => mesherThread # "running"

\* C6: in every frame, whatever the minimum and maximum numbers of time
\* steps per frame (each at least 1), the number of substeps executed never
\* exceeds the maximum, and a further substep is only begun below it.
C6_SubstepsWithinMax ==
  /\ pc = "loop" => currentFrameTimeStepNumber < maxFrameTimeSteps
  /\ pc = "finish" => currentFrameTimeStepNumber <= maxFrameTimeSteps

\* A frame that ran into the clamp: the minimum asks for more substeps than
\* the maximum permits and the frame ended with exactly the maximum.
C6_Witness ==
  /\ pc = "finish"
  /\ minFrameTimeSteps > maxFrameTimeSteps
  /\ maxFrameTimeSteps > 1
  /\ currentFrameTimeStepNumber = maxFrameTimeSteps

\* C7 as stated: when the substep loop ends, the substep lengths of the
\* frame sum to the dt that update was given.
C7_SumIsFrameDt ==
  pc = "finish" => frameTimeSimulated = frameDtArg

\* C7, amended: the substep loop ends after at most the maximum number of
\* substeps, and when it ends the substep lengths sum to max(dt, epsdt)
\* less a remainder between 0 and eps that is left unsimulated.
C7_SumIsClampedDtLessRemainder ==
  pc = "finish" =>
    /\ currentFrameTimeStepNumber >= 1
    /\ currentFrameTimeStepNumber <= maxFrameTimeSteps
    /\ frameTimeSimulated + currentFrameDeltaTimeRemaining
         = Max(frameDtArg, EpsDt)
    /\ currentFrameDeltaTimeRemaining >= 0
    /\ currentFrameDeltaTimeRemaining <= Eps

\* A frame of more than one substep whose loop ended with frame time left.
C7_Witness ==
  /\ pc = "finish"
  /\ currentFrameTimeStepNumber > 1
  /\ currentFrameDeltaTimeRemaining > 0

\* The status a substep's solve amounts to; a substep without a solve
\* counts as a success with no iterations.
StatusOf(o) ==
  IF o.ran THEN SolverStatus(o.success, o.iterations, o.error)
  ELSE StatusReset

\* The first substep of the log whose solve failed, 0 if none did.
FirstFailure(log) ==
  LET F == {i \in 1..Len(log) : log[i].ran /\ ~log[i].success}
  IN  IF F = {} THEN 0 ELSE CHOOSE i \in F : \A j \in F : i <= j

\* C3: after update(dt) has returned, the pressure solver status of the
\* frame stats is that of the first substep whose solve failed and, if
\* none failed, that of a substep with the greatest iteration count.
C3_FirstFailureOrMaxIterations ==
  (pc = "idle" /\ isCurrentFrameFinished /\ solveLog # <<>>) =>
    LET f == FirstFailure(solveLog)
    IN  IF f # 0
        THEN frameData.pressureSolver = StatusOf(solveLog[f])
        ELSE \E i \in 1..Len(solveLog) :
               /\ \A j \in 1..Len(solveLog) :
                    StatusOf(solveLog[j]).iterations
                      <= StatusOf(solveLog[i]).iterations
               /\ frameData.pressureSolver = StatusOf(solveLog[i])

\* C2: the output worker consumes only the copies captured at its launch:
\* every particle, solid SDF and velocity field value it reads is the
\* value of its copy, never a later value of the live object.
C2_WorkerReadsSnapshotValues ==
  \A r \in mesherReads : r.value = mesherSnapshot[r.what]

\* The data flow of a substep: its stages in the order in which each one's
\* input is produced by the ones before it.
DataFlowOrder ==
  << "updateObstacleObjects", "updateLiquidLevelSet", "advectVelocityField",
     "saveVelocityField", "applyBodyForcesToVelocityField",
     "applyViscosityToVelocityField", "pressureSolve",
     "constrainVelocityFields", "updateDiffuseMaterial", "updateSheetSeeding",
     "updateMarkerParticleVelocities", "advanceMarkerParticles",
     "updateFluidObjects", "updateMarkerParticleAttributes",
     "outputSimulationData" >>

IsDataFlowStage(name) == \E i \in 1..Len(DataFlowOrder) : DataFlowOrder[i] = name

StageIndex(name) ==
  CHOOSE i \in 1..Len(StepFluidStages) : StepFluidStages[i] = name

\* The last stage the curvature worker can overlap: the first join that
\* the flags make.
LastCurvatureStage ==
  IF isSurfaceTensionEnabled
  THEN StageIndex("joinCurvatureForSurfaceTension")
  ELSE IF isDiffuseMaterialOutputEnabled
  THEN StageIndex("joinCurvatureForDiffuseMaterial")
  ELSE StageIndex("joinCurvatureForSheetSeeding")

\* C5 as stated: at no point do two pipeline stages run concurrently -- the
\* curvature computation never runs while the main thread is in a
\* computing stage.
C5_NoConcurrentStages ==
  ~(fluidCurvatureThread = "running"
      /\ StageName(mainStage) \in ComputeStages)

\* C5, amended: the stages the main thread runs in a substep follow the
\* data flow order, one after the other; the curvature worker is the one
\* computation that overlaps them, and only from its launch after velocity
\* advection to the first join that the enabled features make.
C5_MainStagesOrderedCurvatureOverlaps ==
  /\ LET done == SelectSeq(stageLog, IsDataFlowStage)
     IN  done = SubSeq(DataFlowOrder, 1, Len(done))
  /\ fluidCurvatureThread # "none" =>
       /\ pc = "step"
       /\ mainStage > StageIndex("launchCalculateFluidCurvatureGridThread")
       /\ mainStage <= LastCurvatureStage

\* The curvature worker still runs while the main thread solves for
\* pressure, after the stages up to viscosity have run in order.
C5_Witness ==
  /\ fluidCurvatureThread = "running"
  /\ StageName(mainStage) = "pressureSolve"
  /\ Len(stageLog) = 6

\* C4: whenever a static obstacle has reported a state change, the cached
\* static solid SDF is invalidated and rebuilt before it is next combined
\* into the solid SDF: no solid SDF is built from a cache that lacks a
\* reported change.
C4_CacheRebuiltBeforeCombined ==
  lastStaticCombine # "stale cache"

C9_KernelWritesDisjoint ==
  \A w1, w2 \in kernelWrites :
    (w1.target = w2.target /\ w1.element = w2.element)
      => w1.thread = w2.thread

\* C10 as the specification states it: no kernel thread writes a particle
\* attribute column.
C10_NoKernelWritesStore ==
  \A w \in kernelWrites : w.target = "_nearSolidGrid"

\* C10, amended: the particles are added and removed by the main thread
\* alone -- while a kernel launch runs the store keeps its size and its
\* column lengths -- and the only writes of a kernel thread to the store are
\* those of the velocity update, each thread assigning the entries of its
\* own interval of the existing particles in the velocity column and, under
\* APIC, the three affine columns.
C10_KernelsAssignOwnVelocityEntries ==
  /\ kernelLaunch = "_updateMarkerParticleVelocitiesThread" =>
       /\ kernelIntervals[Len(kernelIntervals)] = particleSystem.size
       /\ \A c \in DOMAIN particleSystem.columns :
             particleSystem.columns[c] = particleSystem.size
  /\ \A w \in kernelWrites :
       w.target # "_nearSolidGrid" =>
         /\ kernelLaunch = "_updateMarkerParticleVelocitiesThread"
         /\ w.target \in VelocityKernelColumns(velocityTransferMethod)
         /\ w.target \in DOMAIN particleSystem.columns
         /\ w.element \in ThreadRange(kernelIntervals[w.thread],
                                       kernelIntervals[w.thread + 1])
         /\ w.element < particleSystem.columns[w.target]

\* Two threads of an APIC velocity update have each assigned entries of the
\* affine columns.
C10_Witness ==
  /\ kernelLaunch = "_updateMarkerParticleVelocitiesThread"
  /\ \E w1, w2 \in kernelWrites :
       /\ w1.thread # w2.thread
       /\ w1.target = "AFFINEX"
       /\ w2.target = "AFFINEZ"

RanSolves(log) == {i \in 1..Len(log) : log[i].ran}

\* C12: after update(dt) has returned, the viscosity solver status of the
\* frame stats is that of the first substep whose viscosity solve failed
\* and, if none failed, that of a substep with the greatest viscosity
\* iteration count (the reset status if no substep ran the solve).
C12_ViscosityFirstFailureOrMaxIterations ==
  (pc = "idle" /\ isCurrentFrameFinished /\ viscosityLog # <<>>) =>
    LET f == FirstFailure(viscosityLog)
        R == RanSolves(viscosityLog)
    IN  IF f # 0
        THEN frameData.viscositySolver = StatusOf(viscosityLog[f])
        ELSE IF R = {} THEN frameData.viscositySolver = StatusReset
        ELSE \E i \in R :
               /\ \A j \in R : viscosityLog[j].iterations
                                   <= viscosityLog[i].iterations
               /\ frameData.viscositySolver = StatusOf(viscosityLog[i])

SourceOf(entry) == CHOOSE source \in FluidSources : source.id = entry.id

\* The outflow sources processed in the last substep.
ProcessedOutflows ==
  {SourceOf(sourceLog[i]) :
     i \in {j \in 1..Len(sourceLog) : sourceLog[j].kind = "outflow"}}

\* C14 as stated: after a substep no marker particle is inside the SDF of
\* an enabled outflow source processed in that substep.
C14_NoParticleInsideProcessedOutflow ==
  \A source \in ProcessedOutflows : positions \cap source.inside = {}

\* C14: after a substep, for every enabled outflow source processed in it
\* that has fluid outflow enabled, no marker particle in one of the cells
\* of the source is inside its SDF and, if the source is inversed, no
\* marker particle in another cell is outside its SDF -- the particles the
\* inflows emitted in the same substep included.
C14_NoParticleInOutflowCells ==
  \A source \in ProcessedOutflows :
    source.isFluidOutflowEnabled =>
      \A p \in positions :
        IF source.isOutflowInversed
        THEN PositionToGridIndex(p) \notin GetCells(source.inside)
               => p \in source.inside
        ELSE PositionToGridIndex(p) \in GetCells(source.inside)
               => p \notin source.inside

C14_Witness ==
  \E i, j \in 1..Len(sourceLog) :
    /\ i < j
    /\ sourceLog[i].kind = "inflow"
    /\ sourceLog[j].kind = "outflow"
    /\ SourceOf(sourceLog[j]).isFluidOutflowEnabled
    /\ ~SourceOf(sourceLog[j]).isOutflowInversed
    /\ sourceLog[i].added \cap SourceOf(sourceLog[j]).inside # {}
    /\ positions # {}

\* C15: after every substep, for every open side of the domain, no marker
\* particle lies outside the domain inset by the open boundary width on
\* that side -- nor outside the boundary of the domain inset by it, which
\* is where _updateOutflowBoundary draws the line.
C15_NoParticleBeyondOpenBoundary ==
  [][isSimulationInitialized =>
       \A p \in positions' :
         /\ openBoundaryXNeg' =>
              /\ p >= 2 * openBoundaryWidth'
              /\ p >= BoundaryMin + 2 * openBoundaryWidth'
         /\ openBoundaryXPos' =>
              /\ p <= 2 * GridCells - 1 - 2 * openBoundaryWidth'
              /\ p <= BoundaryMax - 2 * openBoundaryWidth']_vars

\* A substep with only the side of greater x open, in which an emission put
\* particles beyond the open boundary and none of them stayed, while other
\* particles did.
C15_Witness ==
  /\ isSimulationInitialized
  /\ openBoundaryXPos
  /\ ~openBoundaryXNeg
  /\ positions # {}
  /\ \E i \in 1..Len(sourceLog) :
       /\ sourceLog[i].added # {}
       /\ sourceLog[i].added \cap positions = {}

\* C16: after initialize() and after every substep, every marker particle
\* lies inside the grid (its cell index is in range) and outside solid,
\* whichever of loading, fluid objects, inflows and advection put it there.
C16_PositionsInGridOutsideSolid ==
  isSimulationInitialized =>
    \A p \in positions :
      /\ IsGridIndexInRange(PositionToGridIndex(p))
      /\ ~IsSolidPoint(p)

\* The inflow emission calls of the last substep, as indices of its record.
InflowCalls == {i \in 1..Len(sourceLog) : sourceLog[i].kind = "inflow"}

\* C17: with one emission a substep and inflows entirely inside the domain,
\* the first emission call of a substep fills every sub-cell candidate of
\* its source, and a later emission call of the same substep over the same
\* candidates adds no particles.
C17_InflowIdempotence ==
  \A i \in InflowCalls :
    /\ (i = 1 /\ ProcessedOutflows = {})
         => SubCellCandidates(SourceOf(sourceLog[i]).inside) \subseteq positions
    /\ \A j \in InflowCalls :
         (i < j /\ SourceOf(sourceLog[i]).inside
                    = SourceOf(sourceLog[j]).inside)
           => sourceLog[j].added = {}

\* C18: in every substep the fluid sources are processed in descending
\* order of priority -- of two sources of one kind (fluid objects, inflows,
\* outflows) none is processed after one of strictly lower priority.
C18_DescendingPriorityOrder ==
  \A i, j \in 1..Len(sourceLog) :
    (i < j /\ sourceLog[i].kind = sourceLog[j].kind)
      => sourceLog[i].priority >= sourceLog[j].priority

\* C19: update(dt) before initialize() raises the error of an
\* uninitialized simulation and changes nothing else; once initialize() has
\* returned the simulation stays initialized and update(dt) never raises
\* that error.
C19_UpdateNeedsInitialize ==
  [][/\ \A dt \in FrameDts :
          UpdateBegin(dt) =>
            IF isSimulationInitialized
            THEN lastError' # "runtime_error"
            ELSE /\ lastError' = "runtime_error"
                 /\ UNCHANGED <<driverVars, nonFrameVars>>
     /\ isSimulationInitialized => isSimulationInitialized']_vars

\* update(dt) was called before initialize() and refused.
C19_Witness ==
  /\ ~isSimulationInitialized
  /\ lastError = "runtime_error"
  /\ pc = "idle"
  /\ currentFrame = 0

\* C20: on an initialized simulation update(dt) with dt < 0 raises a
\* domain error and changes nothing of the frame state (frame counter,
\* finished flag, solver status, particle store); with any dt >= 0, dt = 0
\* included, it raises nothing and begins a frame, and a frame that has
\* begun runs on to its return without an error, finished and counted.
C20_UpdateValidatesDt ==
  [][/\ \A dt \in FrameDts :
          (isSimulationInitialized /\ UpdateBegin(dt)) =>
            IF dt < 0
            THEN /\ lastError' = "domain_error"
                 /\ UNCHANGED <<driverVars, nonFrameVars>>
            ELSE /\ lastError' = "none"
                 /\ pc' = "loop"
                 /\ frameDtArg' = dt
                 /\ ~isCurrentFrameFinished'
     /\ pc # "idle" =>
          /\ lastError' = "none"
          /\ pc' \in {"loop", "finish", "idle"}
          /\ pc' = "idle" =>
               /\ isCurrentFrameFinished'
               /\ currentFrame' = currentFrame + 1
               /\ currentFrameTimeStepNumber' >= 1]_vars

\* The entries of a vector are all different.
IsDuplicateFree(v) == \A i, j \in 1..Len(v) : v[i] = v[j] => i = j

\* C21: adding an obstacle or a fluid source that is registered already
\* raises the error of a duplicate and leaves the registry as it is, so
\* after any sequence of add and remove calls no obstacle and no source is
\* in its registry twice.
C21_NoDuplicateRegistration ==
  [][/\ \A o \in Obstacles :
          (addMeshObstacle(o) /\ o \in Range(obstacles))
            => /\ lastError' = "runtime_error"
               /\ obstacles' = obstacles
     /\ \A source \in FluidSources :
          (addMeshFluidSource(source) /\ source \in Range(meshFluidSources))
            => /\ lastError' = "runtime_error"
               /\ meshFluidSources' = meshFluidSources
     /\ IsDuplicateFree(obstacles')
     /\ IsDuplicateFree(SourceIDs(meshFluidSources'))]_vars

\* Both registries hold the most they can, one of their entries was
\* added again and the call was refused.
C21_Witness ==
  /\ Len(obstacles) = 2
  /\ Len(meshFluidSources) = MaxSources
  /\ lastError = "runtime_error"

\* All of the state but the error a call reports.
simulatorState == <<driverVars, nonFrameVars>>

\* C22: a setter called with an argument outside its precondition raises
\* at once, a domain error, and nothing of the state of the simulator is
\* changed by the call.
C22_SettersValidateFirst ==
  [][/\ \A n \in StepSettings :
          (n < 1 /\ (setMinTimeStepsPerFrame(n) \/ setMaxTimeStepsPerFrame(n)))
            => lastError' = "domain_error" /\ UNCHANGED simulatorState
     /\ \A n \in 0..MaxThreads :
          (n < 1 /\ setMaxThreadCount(n))
            => lastError' = "domain_error" /\ UNCHANGED simulatorState
     /\ \A active \in BoundaryCollisionArgs :
          (Len(active) # 6 /\ setFluidBoundaryCollisions(active))
            => lastError' = "domain_error" /\ UNCHANGED simulatorState
     /\ \A width \in 0..2 :
          (width < 1 /\ setFluidOpenBoundaryWidth(width))
            => lastError' = "domain_error" /\ UNCHANGED simulatorState
     /\ \A jit \in JitterFactors \cup {0 - 1} :
          (jit < 0 /\ setMarkerParticleJitterFactor(jit))
            => lastError' = "domain_error" /\ UNCHANGED simulatorState]_vars

\* A setter was refused after every setting had been moved off its
\* default.
C22_Witness ==
  /\ lastError = "domain_error"
  /\ minFrameTimeSteps = MaxSteps
  /\ maxFrameTimeSteps = 2
  /\ maxThreadCount = MaxThreads
  /\ openBoundaryXNeg
  /\ openBoundaryWidth = 2
  /\ markerParticleJitterFactor = 2

\* C23: with asynchronous meshing, when update(dt) has returned the output
\* worker has run to its end and been joined, so the surface mesh buffer is
\* there, and every value it was made from is the value of the snapshot
\* taken at the launch -- the buffer synchronous meshing makes of that
\* snapshot -- whatever the number of substeps of the frame.
C23_AsynchronousBufferAsSynchronous ==
  (/\ pc = "idle"
   /\ isCurrentFrameFinished
   /\ isAsynchronousMeshingEnabled
   /\ isSurfaceMeshReconstructionEnabled)
    => /\ mesherThread = "none"
       /\ mesherPc = "done"
       /\ \A r \in mesherReads : r.value = mesherSnapshot[r.what]

\* C24: with precomputation of the static solid SDF, a cached static SDF
\* that was combined into the solid SDF was computed from exactly the
\* static obstacles in the registry at that time, after any sequence of
\* addMeshObstacle, removeMeshObstacle, removeMeshObstacles and enabling or
\* disabling of the precomputation between the frames.
C24_CacheOfRegisteredStatics ==
  (isSolidLevelSetUpToDate /\ lastStaticCombine \in {"cache", "stale cache"})
    => staticSolidSDF.statics = StaticObstacles(obstacles)

\* ------------------------------------------------------------------ C25
\* The frame driver on frames cut finer than the loop's eps: with
\* FineStepCount minimum substeps a frame of epsdt has substeps of eps / 2.
FineStepCount == 2 * (EpsDt \div Eps)
FineStepSettings == {1, 2, FineStepCount}

SubstepsNext ==
  \/ Initialize
  \/ \E n \in FineStepSettings : setMinTimeStepsPerFrame(n)
  \/ \E n \in FineStepSettings : setMaxTimeStepsPerFrame(n + 1)
  \/ \E dt \in {0, EpsDt} : UpdateBegin(dt)
  \/ \E n \in StepCountsFor(currentFrameDeltaTime) : Substep(n, NoSolve, NoSolve)
  \/ UpdateReturn

SpecSubsteps == Init /\ [][SubstepsNext]_vars

\* C25: while a frame runs, after n substeps the simulated frame time is at
\* most n * dt / min_time_steps_per_frame (dt the frame length update()
\* works with) unless n has reached the maximum substep count; and a frame
\* that has left the loop has executed at least
\* min(min_time_steps_per_frame, max_time_steps_per_frame) substeps.
C25_AtLeastMinSubsteps ==
  pc \in {"loop", "finish"} =>
    /\ currentFrameTimeStepNumber < maxFrameTimeSteps =>
         frameTimeSimulated * minFrameTimeSteps
           <= currentFrameTimeStepNumber * currentFrameDeltaTime
    /\ pc = "finish" =>
         currentFrameTimeStepNumber
           >= Min(minFrameTimeSteps, maxFrameTimeSteps)

\* ------------------------------------------------------------------ C26
\* The stages of _stepFluid that read _fluidCurvatureGrid or
\* _fluidSurfaceLevelSet: the pressure solve with surface tension, the
\* diffuse material update, sheet seeding, and the particle
\* classification of the output step.
ReadsCurvature(stage) ==
  \/ stage = "pressureSolve" /\ isSurfaceTensionEnabled
  \/ stage = "updateDiffuseMaterial" /\ isDiffuseMaterialOutputEnabled
  \/ stage = "updateSheetSeeding" /\ isSheetSeedingEnabled
  \/ stage = "outputSimulationData"

\* C26: a curvature worker that has been launched is joined before the
\* main thread enters a stage that reads the curvature grid or the surface
\* level set, and before the substep ends; the launch of a substep never
\* finds the worker of an earlier one.
C26_CurvatureJoinedBeforeReaders ==
  /\ fluidCurvatureThread # "none" =>
       /\ pc = "step"
       /\ isCalculateFluidCurvatureGridThreadRunning
       /\ ~ReadsCurvature(StageName(mainStage))
       /\ mainStage <= StageIndex("joinCurvatureForSheetSeeding")
  /\ (pc = "step"
        /\ StageName(mainStage) = "launchCalculateFluidCurvatureGridThread")
       => fluidCurvatureThread = "none"

\* Sheet seeding alone is enabled, so the worker was launched in this
\* substep and its one join is the last of the three: the main thread is
\* in sheet seeding, in the second substep of a frame, with the worker
\* joined.
C26_Witness ==
  /\ pc = "step"
  /\ isSheetSeedingEnabled
  /\ ~isSurfaceTensionEnabled
  /\ ~isDiffuseMaterialOutputEnabled
  /\ StageName(mainStage) = "updateSheetSeeding"
  /\ currentFrameTimeStepNumber = 1
  /\ fluidCurvatureThread = "none"

\* ------------------------------------------------------------------ C27
\* The frame driver with _stepFluid run stage by stage beside the output
\* worker, with and without the once-per-frame grid writes.
GridsNext ==
  \/ Initialize
  \/ \E n \in 1..StageSteps : setMaxTimeStepsPerFrame(n)
  \/ \E b \in BOOLEAN : setAsynchronousMeshing(b)
  \/ currentFrame < StageFrames /\ UpdateBegin(EpsDt)
  \/ \E n \in StepCountsFor(currentFrameDeltaTime) : StepBegin(n)
  \/ \E g \in BOOLEAN : StageDone(FALSE, g, NoSolve, NoSolve)
  \/ LaunchCurvature
  \/ JoinCurvature
  \/ LaunchOutputSurfaceMeshThread
  \/ OutputSurfaceMeshThreadStep
  \/ JoinOutputSurfaceMeshThread
  \/ UpdateReturn

SpecGrids == Init /\ [][GridsNext]_vars

\* C27: the attribute grids and the meshing volume SDF, which the output
\* worker reads in place, are written only in the first substep of a
\* frame, by a stage that comes before the launch of the output worker in
\* _outputSimulationData; no later substep of the frame writes them.
C27_SharedGridsWrittenInFirstSubstepOnly ==
  [][(attributeGrids' # attributeGrids
        \/ meshingVolumeSDF' # meshingVolumeSDF) =>
       /\ pc = "step"
       /\ currentFrameTimeStepNumber = 0
       /\ mainStage < StageIndex("outputSimulationData")
       /\ attributeGrids'.substep <= 1
       /\ meshingVolumeSDF'.substep <= 1]_vars

\* The second substep of a frame has run its attribute update beside the
\* running output worker, and both grids hold what the first substep of
\* this frame wrote.
C27_Witness ==
  /\ pc = "step"
  /\ mesherThread = "running"
  /\ currentFrameTimeStepNumber = 1
  /\ StageName(mainStage) = "outputSimulationData"
  /\ attributeGrids = GridWrite(currentFrame, 1)
  /\ meshingVolumeSDF = GridWrite(currentFrame, 1)

\* ------------------------------------------------------------------ C28
\* The load calls at any time, initialize() and the frames of update().
LoadUpdateNext ==
  \/ \E P \in StoreLoadSets, data \in LoadDataSets :
       loadMarkerParticleData(P, data)
  \/ Initialize
  \/ \E dt \in {0, EpsDt} : UpdateBegin(dt)
  \/ \E n \in StepCountsFor(currentFrameDeltaTime) : Substep(n, NoSolve, NoSolve)
  \/ UpdateReturn

SpecLoadUpdate == Init /\ [][LoadUpdateNext]_vars

\* C28: no load queue is non-empty while update(dt) runs -- every batch a
\* load call has accepted, before or after initialize(), is in the
\* particle store before the next substep executes.
C28_NoQueuedBatchWhileUpdateRuns ==
  pc \in {"loop", "finish"} => markerParticleLoadQueue = <<>>

\* ------------------------------------------------------------------ C29
\* Frames of zero and of positive length, _stepFluid run stage by stage
\* beside its workers.
SkipNext ==
  \/ Initialize
  \/ \E n \in 1..2 : setMinTimeStepsPerFrame(n)
  \/ \E n \in 1..2 : setMaxTimeStepsPerFrame(n)
  \/ \E b \in BOOLEAN : setFluidParticleDebugOutput(b)
  \/ \E b \in BOOLEAN : setSheetSeeding(b)
  \/ \E dt \in {0, EpsDt} : UpdateBegin(dt)
  \/ \E n \in StepCountsFor(currentFrameDeltaTime) : StepBegin(n)
  \/ \E g \in BOOLEAN : StageDone(FALSE, g, NoSolve, NoSolve)
  \/ LaunchCurvature
  \/ CurvatureThreadFinish
  \/ JoinCurvature
  \/ LaunchOutputSurfaceMeshThread
  \/ OutputSurfaceMeshThreadStep
  \/ JoinOutputSurfaceMeshThread
  \/ UpdateReturn

SpecSkip == Init /\ [][SkipNext]_vars

\* update(dt) is running a frame with dt < 1e-6, called after a frame has
\* completed and with no debug output enabled.
InZeroLengthFrame ==
  /\ pc \in {"loop", "step", "finish"}
  /\ frameDtArg < EpsDt
  /\ currentFrame >= 1
  /\ ~isDebugOutputEnabled

\* A step that runs no pipeline stage and launches no worker: the particle
\* store, the grids, the workers and what they produce stay as they are.
RunsNoStage ==
  /\ pc' # "step"
  /\ UNCHANGED <<liveVars, mesherVars, curvatureVars, mesherThread,
                 mainStage, stageLog, solverVars>>

\* C29 as stated: such a call executes exactly one substep, in which no
\* pipeline stage runs and no worker is launched, and advances the frame
\* counter by exactly one.
C29_SkippedFrameExactlyOneSubstep ==
  [][InZeroLengthFrame =>
       /\ RunsNoStage
       /\ pc = "finish" =>
            /\ currentFrameTimeStepNumber = 1
            /\ currentFrame' = currentFrame + 1]_vars

\* C29, amended: such a call executes one or more substeps, in none of
\* which a pipeline stage runs or a worker is launched, and advances the
\* frame counter by exactly one.
C29_SkippedFrameRunsNoStage ==
  [][InZeroLengthFrame =>
       /\ RunsNoStage
       /\ pc = "finish" =>
            /\ currentFrameTimeStepNumber >= 1
            /\ currentFrame' = currentFrame + 1
            /\ pc' = "idle"]_vars

\* A zero-length frame after a frame that moved particles has left the
\* loop after two substeps, with the store as the first frame left it.
C29_Witness ==
  /\ InZeroLengthFrame
  /\ pc = "finish"
  /\ isSkippedFrame
  /\ currentFrameTimeStepNumber = 2
  /\ markerParticles # 0
  /\ stageLog # <<>>

\* ------------------------------------------------------------------ C30
\* The exceptions of the simulator: all of them derive from std::exception
\* (domain_error, runtime_error, invalid_argument, out_of_range for a
\* missing attribute, bad_alloc from new).
StdExceptions ==
  {"domain_error", "runtime_error", "invalid_argument", "missing attribute",
   "bad_alloc"}

\* A handler that catches runtime errors only.
CatchesRuntimeErrorOnly(thrown) == thrown = "runtime_error"

\* catch (std::exception &ex): what the handler of an entry point catches.
Catches(thrown) == thrown \in StdExceptions

\* The body of an entry point written out in fluidsimulation_c.cpp:
\* *err = SUCCESS; try { call } catch (std::exception &ex) { *err = FAIL; }.
\* thrown is what the call throws ("none": it returns); what is not caught
\* leaves the entry point with *err still SUCCESS.
TryCatch(thrown) ==
  IF thrown # "none" /\ Catches(thrown) THEN "FAIL" ELSE "SUCCESS"

\* CBindings::safe_execute_method_...(obj, method, ..., err): the same
\* body around the call of the method.
SafeExecuteMethod(thrown) == TryCatch(thrown)

\* The grids handed to upscaleOnInitialization: isize, jsize, ksize, dx of
\* the previous simulation, valid and not.
PreviousGrids == {<<1, 1, 1, 1>>, <<0, 1, 1, 1>>, <<2, 1, 0, 1>>, <<1, 1, 1, 0>>}

\* upscaleOnInitialization(isizePrev, jsizePrev, ksizePrev, dxPrev)
upscaleOnInitialization(prev) ==
  /\ pc = "idle"
  /\ IF prev[1] <= 0 \/ prev[2] <= 0 \/ prev[3] <= 0 \/ prev[4] <= 0
     THEN /\ lastError' = "domain_error"
          /\ UNCHANGED upscalingPrevious
     ELSE /\ lastError' = "none"
          /\ upscalingPrevious' = prev
  /\ UNCHANGED <<isSimulationInitialized, configVars, timeVars, historyVars,
                 outputDataIsInitialized, currentFrame,
                 isCurrentFrameFinished, mesherThread, solverVars,
                 frameData, pc>>
  /\ UNCHANGED <<stageVars, solidVars, storeVars, kernelVars, sourceVars>>

\* FluidSimulation_new_from_empty(err): another simulator is constructed;
\* thrown is what new FluidSimulation() throws.
FluidSimulation_new_from_empty(thrown) ==
  /\ pc = "idle"
  /\ lastError' = thrown
  /\ err' = TryCatch(thrown)
  /\ UNCHANGED <<isSimulationInitialized, configVars, timeVars, historyVars,
                 outputDataIsInitialized, currentFrame,
                 isCurrentFrameFinished, mesherThread, solverVars,
                 frameData, pc>>
  /\ UNCHANGED <<stageVars, solidVars, storeVars, kernelVars, sourceVars,
                 upscalingPrevious>>

\* FluidSimulation_upscale_on_initialization(obj, ..., err)
FluidSimulation_upscale_on_initialization(prev) ==
  /\ upscaleOnInitialization(prev)
  /\ err' = TryCatch(lastError')

\* FluidSimulation_initialize(obj, err)
FluidSimulation_initialize ==
  /\ InitializeCall
  /\ err' = SafeExecuteMethod(lastError')
  /\ UNCHANGED upscalingPrevious

\* FluidSimulation_set_max_time_steps_per_frame(obj, n, err)
FluidSimulation_set_max_time_steps_per_frame(n) ==
  /\ setMaxTimeStepsPerFrameCall(n)
  /\ err' = SafeExecuteMethod(lastError')
  /\ UNCHANGED upscalingPrevious

\* FluidSimulation_update(obj, dt, err), up to the do-loop of update().
FluidSimulation_update(dt) ==
  /\ UpdateCall(dt)
  /\ err' = SafeExecuteMethod(lastError')
  /\ UNCHANGED upscalingPrevious

\* The simulator driven through its C entry points.
BindingsNext ==
  \/ \E thrown \in {"none", "bad_alloc"} : FluidSimulation_new_from_empty(thrown)
  \/ \E prev \in PreviousGrids : FluidSimulation_upscale_on_initialization(prev)
  \/ FluidSimulation_initialize
  \/ \E n \in 0..2 : FluidSimulation_set_max_time_steps_per_frame(n)
  \/ \E dt \in FrameDts : FluidSimulation_update(dt)
  \/ \E n \in StepCountsFor(currentFrameDeltaTime) : Substep(n, NoSolve, NoSolve)
  \/ UpdateReturn

SpecBindings == Init /\ [][BindingsNext]_vars

\* A step that is the call of a C entry point.
EntryPointCall ==
  \/ \E thrown \in {"none", "bad_alloc"} : FluidSimulation_new_from_empty(thrown)
  \/ \E prev \in PreviousGrids : FluidSimulation_upscale_on_initialization(prev)
  \/ FluidSimulation_initialize
  \/ \E n \in 0..2 : FluidSimulation_set_max_time_steps_per_frame(n)
  \/ \E dt \in FrameDts : FluidSimulation_update(dt)

============================================================================
